---- MODULE Spec2Model ----
(***************************************************************************)
(* The sealed-draft state machine of lorcana-draft-app: pack construction, *)
(* the pick/removal protocol, round transition, undo and the resets        *)
(* (lib/draft.ts, lib/random.ts), driven by the handlers of App.tsx.       *)
(*                                                                         *)
(* A Card is represented by its id, a positive integer; the catalogue      *)
(* CardRarity gives the rarity of a card.  masterCards is a sequence of    *)
(* ids.  An optional value (the result of undoLastPick) is the empty        *)
(* sequence for null and a one-element sequence otherwise.                 *)
(*                                                                         *)
(* The undoBuffer of a DraftState is a DraftState that may hold an         *)
(* undoBuffer of its own.  This chain of nested snapshots is kept as a     *)
(* sequence, outermost first: undoBuffer[1] holds the fields of            *)
(* state.undoBuffer, undoBuffer[2] those of state.undoBuffer.undoBuffer,   *)
(* and so on; the empty sequence is null.  The undoBuffer field of an      *)
(* element is left empty, the rest of the sequence standing for it.        *)
(*                                                                         *)
(* Math.random() is a tape: the k-th call made by one operation returns    *)
(* RandomTape(seed, k) / RandomDenominator, and every operation that draws *)
(* random numbers picks its seed from Seeds.                               *)
(*                                                                         *)
(* The saved_drafts table of lib/database.ts is a sequence of rows in the  *)
(* order of created_at, the latest row last; a row holds the JSON of a     *)
(* DraftState, which is the state itself for the states without undefined  *)
(* picks.  Every handler that changes the DraftState runs the save effect  *)
(* of App.tsx before the next event, and a storage call may fail when      *)
(* storage is "unreliable".  The text of a deck list is a string, parsed   *)
(* the way parseDeckText of SavedDecks.tsx parses it.                      *)
(*                                                                         *)
(* heap holds the DraftState objects of a caller that uses the draft       *)
(* functions directly, and deckView the arguments and the result of the    *)
(* last call of a deck function of lib/deckUtils.js, whose cards are       *)
(* records of the fields these functions read.                             *)
(*                                                                         *)
(* SpecAsync takes the storage calls apart into the steps between their    *)
(* awaits: db is the module variable of lib/database.ts, instances the     *)
(* tables of the SQL.Database objects created, durable the database file,  *)
(* storageCalls the calls of loadState and saveState started so far, and   *)
(* mount what the closures of the mount effect of App.tsx hold.  The other *)
(* specifications run a save as one step of its handler.                   *)
(***************************************************************************)
EXTENDS Integers, Sequences, FiniteSets, TLC

\* ---------------------------------------------------------------- constants
NumPacks == 6
PackSize == 12
NumRounds == 6
TurnsPerRound == 12

\* ------------------------------------------------------------------- bounds
\* Math.random() returns a multiple of 1/RandomDenominator.
RandomDenominator == 3
\* Seeds of the random tape are 0..MaxSeed.
MaxSeed == 1
\* The user clicks one of the first MaxCardIndex+1 cards of the active pack.
MaxCardIndex == 1
\* The turn of round 1 whose pick takes any offered input; the other picks
\* take the first card and the tape of seed 0.
FreeTurn == 1
\* Sizes of the master pools a draft is started over.
ShortPoolSize == 2
LargePoolSize == 13
\* Direct calls of pickCard go on for this many picks beyond the 72 of a draft.
MaxExtraPicks == 1
\* The loop of Quick Sim is followed for this many passes.
MaxSimPasses == 73
\* Quick Sim is started with at most this many picks of the draft to go.
MaxSimPicks == 12
\* Packs are also drawn from the pools of 0..MaxPoolSize cards.
MaxPoolSize == 12
\* The tally is taken of the lists of up to MaxTallyPicks cards out of the
\* cards 1..MaxTallyCard.
MaxTallyPicks == 4
MaxTallyCard == 5
\* The largest count on a line of an imported deck text.
MaxImportCount == 2
\* The picks up to which a draft is played where its storage is followed.
MaxStorePicks == 1
\* The DraftState objects a caller of the draft functions gets to hold.
MaxHeapObjects == 3
\* The cards of a deck handed to the deck functions.
MaxDeckCards == 3
\* The storage calls a run of the app starts before it is left alone.
MaxStorageCalls == 3

Seeds == 0..MaxSeed

\* ------------------------------------------------------------------ values
Null == <<>>
Some(x) == <<x>>
\* The value of a missing array element (the JavaScript undefined), and what
\* JSON.stringify turns it into inside an array.
Undefined == -1
NullCard == 0

Min(a, b) == IF a < b THEN a ELSE b
Max(a, b) == IF a > b THEN a ELSE b

\* The rarity of the card with the given id ("" is a card without rarity,
\* "Promo" a rarity outside the ranking).
RarityCycle == <<"Common", "Rare", "Legendary", "", "Uncommon", "Legendary", "Promo">>
CardRarity(card) == RarityCycle[((card - 1) % Len(RarityCycle)) + 1]

\* The name and the colour of the card with the given id.  Cards 1 and 2
\* share a name under two colours, the name of card 4 has a " - " in it as
\* the names of the catalogue do ("Cinderella - Dream Come True"), the name
\* of card 5 starts with a digit, and ids beyond the cycle repeat the cards
\* (the duplicates of a card that a catalogue lists).
NameCycle == <<"Card A", "Card A", "Card B", "Card C - Gold", "7 Dwarfs">>
ColorCycle == <<"Amber", "Ruby", "Ruby", "Amber", "Amber">>
CardFullName(card) == NameCycle[((card - 1) % Len(NameCycle)) + 1]
CardColor(card) == ColorCycle[((card - 1) % Len(ColorCycle)) + 1]

\* The position of a name (of a card, a colour or a card type) in the
\* collation order of the locale, which puts digits before letters and
\* "item" before "Other".
CollationKey(name) ==
  CASE name = "7 Dwarfs" -> -1
    [] name = "Card A" -> 1
    [] name = "Card B" -> 2
    [] name = "Card C - Gold" -> 3
    [] name = "Amber" -> 0
    [] name = "item" -> 4
    [] name = "Other" -> 5
    [] name = "Ruby" -> 6

\* a.localeCompare(b): negative, zero or positive.
localeCompare(a, b) ==
  IF CollationKey(a) < CollationKey(b) THEN -1
  ELSE IF CollationKey(a) > CollationKey(b) THEN 1 ELSE 0

MasterPool(n) == [i \in 1..n |-> i]
MasterPools == {MasterPool(ShortPoolSize), MasterPool(LargePoolSize)}
AllPools == {MasterPool(n) : n \in 0..MaxPoolSize}

\* ---------------------------------------------------------------- random.ts
\* The numerator of the k-th value (k = 0, 1, ...) of the tape of a seed.
RandomTape(seed, k) == (seed * (k + 1) + (k \div RandomDenominator)) % RandomDenominator

\* Math.floor(Math.random() * n), the call being the k-th of the tape.
randomInt(n, seed, k) == (RandomTape(seed, k) * n) \div RandomDenominator

\* Math.random() < 0.5, the call being the k-th of the tape.
RandomBelowHalf(seed, k) == 2 * RandomTape(seed, k) < RandomDenominator

\* Array.prototype.splice(start, 1): the index the deletion starts at.
SpliceStart(len, start) == IF start < 0 THEN Max(len + start, 0) ELSE Min(start, len)

\* Mutant of Splice1: returns the element at start but drops the last element
\* of the array (a pop() in place of the splice).
Splice1_DropsLast(arr, start) ==
  LET s == SpliceStart(Len(arr), start)
  IN IF s < Len(arr)
       THEN [rest |-> SubSeq(arr, 1, Len(arr) - 1), removed |-> arr[s + 1]]
       ELSE [rest |-> arr, removed |-> Undefined]

\* arr.splice(start, 1): the array left, and the first element of the
\* returned array of deleted elements (undefined when nothing is deleted).
Splice1(arr, start) ==
  LET s == SpliceStart(Len(arr), start)
  IN IF s < Len(arr)
       THEN [rest |-> SubSeq(arr, 1, s) \o SubSeq(arr, s + 2, Len(arr)),
             removed |-> arr[s + 1]]
       ELSE [rest |-> arr, removed |-> Undefined]

RECURSIVE sampleLoop_WithReplacement(_, _, _, _, _)
\* Mutant of sampleLoop: the element drawn is not taken out of the copy.
sampleLoop_WithReplacement(copy, result, todo, seed, k) ==
  IF todo = 0 THEN [result |-> result, calls |-> k]
  ELSE LET idx == randomInt(Len(copy), seed, k)
       IN sampleLoop_WithReplacement(copy, Append(result, copy[idx + 1]),
                                     todo - 1, seed, k + 1)

RECURSIVE sampleLoop(_, _, _, _, _)
sampleLoop(copy, result, todo, seed, k) ==
  IF todo = 0 THEN [result |-> result, calls |-> k]
  ELSE LET idx == randomInt(Len(copy), seed, k)
       IN sampleLoop(Splice1(copy, idx).rest, Append(result, copy[idx + 1]),
                     todo - 1, seed, k + 1)

\* sampleWithoutReplacement(arr, n); calls is the tape position afterwards.
sampleWithoutReplacement(arr, n, seed, k) ==
  sampleLoop(arr, <<>>, Min(n, Len(arr)), seed, k)

\* JSON.parse(JSON.stringify(x)) of an array of cards: undefined becomes null.
CloneCards(cards) ==
  <<>> \o [j \in 1..Len(cards) |-> IF cards[j] = Undefined THEN NullCard ELSE cards[j]]

\* JSON.parse(JSON.stringify(state)) of a DraftState: of the state and of
\* every snapshot nested in its undo buffer.
deepClone(state) ==
  [state EXCEPT !.picks = CloneCards(state.picks),
                !.undoBuffer = <<>> \o [j \in 1..Len(state.undoBuffer) |->
                                  [state.undoBuffer[j] EXCEPT !.picks = CloneCards(@)]]]

\* A DraftState as the value of an undoBuffer field: its own fields first,
\* then the snapshots nested in it.
AsUndoBuffer(state) == <<[state EXCEPT !.undoBuffer = Null]>> \o state.undoBuffer

\* The DraftState that a non-null undoBuffer field holds.
BufferedState(undoBuffer) == [undoBuffer[1] EXCEPT !.undoBuffer = Tail(undoBuffer)]

\* ----------------------------------------------------------------- draft.ts
getRarityValue(rarity) ==
  IF rarity = "" THEN 0
  ELSE CASE rarity = "Common" -> 1
         [] rarity = "Uncommon" -> 2
         [] rarity = "Rare" -> 3
         [] rarity = "Super Rare" -> 4
         [] rarity = "Legendary" -> 5
         [] rarity = "Epic" -> 6
         [] rarity = "Iconic" -> 7
         [] rarity = "Enchanted" -> 8
         [] rarity = "Special" -> 9
         [] OTHER -> 0

\* The indices (0-based, ascending) of the cards of maximal rarity value.
RarestIndices(cards) ==
  LET maxRarity == CHOOSE m \in {getRarityValue(CardRarity(cards[j])) : j \in 1..Len(cards)} :
                     \A j \in 1..Len(cards) : getRarityValue(CardRarity(cards[j])) <= m
  IN SelectSeq([j \in 1..Len(cards) |-> j - 1],
               LAMBDA i : getRarityValue(CardRarity(cards[i + 1])) = maxRarity)

\* Mutant of findRarestCardIndex: the last card of the pack is returned.
findRarestCardIndex_LastCard(cards, seed, k) ==
  IF Len(cards) = 0 THEN [index |-> -1, calls |-> k]
  ELSE [index |-> Len(cards) - 1, calls |-> k]

\* findRarestCardIndex(cards); calls is the tape position afterwards.
findRarestCardIndex(cards, seed, k) ==
  IF Len(cards) = 0 THEN [index |-> -1, calls |-> k]
  ELSE LET rarestIndices == RarestIndices(cards)
       IN IF Len(rarestIndices) = 1
            THEN [index |-> rarestIndices[1], calls |-> k]
            ELSE [index |-> rarestIndices[randomInt(Len(rarestIndices), seed, k) + 1],
                  calls |-> k + 1]

RECURSIVE createPacks(_, _, _, _, _)
createPacks(roundNumber, masterCards, i, seed, k) ==
  IF i > NumPacks THEN [packs |-> <<>>, calls |-> k]
  ELSE LET sample == sampleWithoutReplacement(masterCards, PackSize, seed, k)
           later == createPacks(roundNumber, masterCards, i + 1, seed, sample.calls)
       IN [packs |-> <<[id |-> <<roundNumber, i>>, cards |-> sample.result,
                        removedLog |-> <<>>]>> \o later.packs,
           calls |-> later.calls]

\* createRound(roundNumber, masterCards), drawing from tape position k on.
createRound(roundNumber, masterCards, seed, k) ==
  [roundNumber |-> roundNumber,
   packs |-> createPacks(roundNumber, masterCards, 1, seed, k).packs,
   turn |-> 1]

createNewDraft(masterCards, seed) ==
  [masterCards |-> masterCards,
   rounds |-> <<createRound(1, masterCards, seed, 0)>>,
   currentRound |-> 1,
   currentTurn |-> 1,
   picks |-> <<>>,
   log |-> <<>>,
   isComplete |-> FALSE,
   undoBuffer |-> Null]

\* Mutant of getActivePackIndex: the turn taken as 0-based.
getActivePackIndex_ZeroBased(turn) == turn % 6

getActivePackIndex(turn) == (turn - 1) % 6

\* The index pickCard removes from a non-empty pack that is not the active
\* one; calls is the tape position afterwards.
RemovalChoice(cards, seed, k) ==
  IF RandomBelowHalf(seed, k)
    THEN [index |-> randomInt(Len(cards), seed, k + 1), calls |-> k + 2]
    ELSE findRarestCardIndex(cards, seed, k + 1)

RECURSIVE removeFromOthers_NoSkip(_, _, _, _, _, _)
\* Mutant of removeFromOthers: the active pack is not skipped.
removeFromOthers_NoSkip(packs, i, packIndex, seed, k, removedCount) ==
  IF i >= Len(packs) THEN [packs |-> packs, calls |-> k, removedCount |-> removedCount]
  ELSE IF Len(packs[i + 1].cards) > 0
    THEN LET choice == RemovalChoice(packs[i + 1].cards, seed, k)
         IN removeFromOthers_NoSkip(
              [packs EXCEPT ![i + 1].cards = Splice1(packs[i + 1].cards, choice.index).rest],
              i + 1, packIndex, seed, choice.calls, removedCount + 1)
    ELSE removeFromOthers_NoSkip(packs, i + 1, packIndex, seed, k, removedCount)

RECURSIVE removeFromOthers_KeepsLast(_, _, _, _, _, _)
\* Mutant of removeFromOthers: a pack down to its last card is left alone.
removeFromOthers_KeepsLast(packs, i, packIndex, seed, k, removedCount) ==
  IF i >= Len(packs) THEN [packs |-> packs, calls |-> k, removedCount |-> removedCount]
  ELSE IF i = packIndex
    THEN removeFromOthers_KeepsLast(packs, i + 1, packIndex, seed, k, removedCount)
  ELSE IF Len(packs[i + 1].cards) > 1
    THEN LET choice == RemovalChoice(packs[i + 1].cards, seed, k)
         IN removeFromOthers_KeepsLast(
              [packs EXCEPT ![i + 1].cards = Splice1(packs[i + 1].cards, choice.index).rest],
              i + 1, packIndex, seed, choice.calls, removedCount + 1)
    ELSE removeFromOthers_KeepsLast(packs, i + 1, packIndex, seed, k, removedCount)

RECURSIVE removeFromOthers(_, _, _, _, _, _)
\* The loop of pickCard over the packs from index i on.
removeFromOthers(packs, i, packIndex, seed, k, removedCount) ==
  IF i >= Len(packs) THEN [packs |-> packs, calls |-> k, removedCount |-> removedCount]
  ELSE IF i = packIndex THEN removeFromOthers(packs, i + 1, packIndex, seed, k, removedCount)
  ELSE IF Len(packs[i + 1].cards) > 0
    THEN LET choice == RemovalChoice(packs[i + 1].cards, seed, k)
         IN removeFromOthers(
              [packs EXCEPT ![i + 1].cards = Splice1(packs[i + 1].cards, choice.index).rest],
              i + 1, packIndex, seed, choice.calls, removedCount + 1)
    ELSE removeFromOthers(packs, i + 1, packIndex, seed, k, removedCount)

\* Mutant of PickCardRun: the turn is not set back to 1 when the next round
\* is appended.
PickCardRun_KeepsTurn(state, cardIndex, seed) ==
  LET newState == [deepClone(state) EXCEPT !.undoBuffer = AsUndoBuffer(deepClone(state))]
      last == Len(newState.rounds)
      currentRound == newState.rounds[last]
      packIndex == getActivePackIndex(newState.currentTurn)
      picked == Splice1(currentRound.packs[packIndex + 1].cards, cardIndex)
      packs1 == [currentRound.packs EXCEPT ![packIndex + 1].cards = picked.rest]
      removal == removeFromOthers(packs1, 0, packIndex, seed, 0, 0)
      logEntry == [round |-> newState.currentRound,
                   turn |-> newState.currentTurn,
                   packIndex |-> packIndex,
                   picked |-> picked.removed,
                   removedCounts |-> removal.removedCount]
      turn1 == newState.currentTurn + 1
      allEmpty == \A p \in 1..Len(removal.packs) : Len(removal.packs[p].cards) = 0
      played == [newState EXCEPT !.rounds[last].packs = removal.packs,
                                 !.picks = Append(newState.picks, picked.removed),
                                 !.log = Append(newState.log, logEntry),
                                 !.currentTurn = turn1]
  IN IF turn1 > TurnsPerRound
       THEN [warned |-> ~allEmpty,
             state |-> IF newState.currentRound < NumRounds
                         THEN [played EXCEPT
                                 !.currentRound = newState.currentRound + 1,
                                 !.rounds = Append(played.rounds,
                                              createRound(newState.currentRound + 1,
                                                          newState.masterCards,
                                                          seed, removal.calls))]
                         ELSE [played EXCEPT !.isComplete = TRUE]]
       ELSE [warned |-> FALSE, state |-> played]

\* Mutant of PickCardRun: the picked card is pushed onto the picks twice.
PickCardRun_PicksTwice(state, cardIndex, seed) ==
  LET newState == [deepClone(state) EXCEPT !.undoBuffer = AsUndoBuffer(deepClone(state))]
      last == Len(newState.rounds)
      currentRound == newState.rounds[last]
      packIndex == getActivePackIndex(newState.currentTurn)
      picked == Splice1(currentRound.packs[packIndex + 1].cards, cardIndex)
      packs1 == [currentRound.packs EXCEPT ![packIndex + 1].cards = picked.rest]
      removal == removeFromOthers(packs1, 0, packIndex, seed, 0, 0)
      logEntry == [round |-> newState.currentRound,
                   turn |-> newState.currentTurn,
                   packIndex |-> packIndex,
                   picked |-> picked.removed,
                   removedCounts |-> removal.removedCount]
      turn1 == newState.currentTurn + 1
      allEmpty == \A p \in 1..Len(removal.packs) : Len(removal.packs[p].cards) = 0
      played == [newState EXCEPT !.rounds[last].packs = removal.packs,
                                 !.picks = Append(Append(newState.picks, picked.removed),
                                                 picked.removed),
                                 !.log = Append(newState.log, logEntry),
                                 !.currentTurn = turn1]
  IN IF turn1 > TurnsPerRound
       THEN [warned |-> ~allEmpty,
             state |-> IF newState.currentRound < NumRounds
                         THEN [played EXCEPT
                                 !.currentRound = newState.currentRound + 1,
                                 !.currentTurn = 1,
                                 !.rounds = Append(played.rounds,
                                              createRound(newState.currentRound + 1,
                                                          newState.masterCards,
                                                          seed, removal.calls))]
                         ELSE [played EXCEPT !.isComplete = TRUE]]
       ELSE [warned |-> FALSE, state |-> played]

\* The body of pickCard: the state it returns and whether it called
\* console.warn.
PickCardRun(state, cardIndex, seed) ==
  LET newState == [deepClone(state) EXCEPT !.undoBuffer = AsUndoBuffer(deepClone(state))]
      last == Len(newState.rounds)
      currentRound == newState.rounds[last]
      packIndex == getActivePackIndex(newState.currentTurn)
      picked == Splice1(currentRound.packs[packIndex + 1].cards, cardIndex)
      packs1 == [currentRound.packs EXCEPT ![packIndex + 1].cards = picked.rest]
      removal == removeFromOthers(packs1, 0, packIndex, seed, 0, 0)
      logEntry == [round |-> newState.currentRound,
                   turn |-> newState.currentTurn,
                   packIndex |-> packIndex,
                   picked |-> picked.removed,
                   removedCounts |-> removal.removedCount]
      turn1 == newState.currentTurn + 1
      allEmpty == \A p \in 1..Len(removal.packs) : Len(removal.packs[p].cards) = 0
      played == [newState EXCEPT !.rounds[last].packs = removal.packs,
                                 !.picks = Append(newState.picks, picked.removed),
                                 !.log = Append(newState.log, logEntry),
                                 !.currentTurn = turn1]
  IN IF turn1 > TurnsPerRound
       THEN [warned |-> ~allEmpty,
             state |-> IF newState.currentRound < NumRounds
                         THEN [played EXCEPT
                                 !.currentRound = newState.currentRound + 1,
                                 !.currentTurn = 1,
                                 !.rounds = Append(played.rounds,
                                              createRound(newState.currentRound + 1,
                                                          newState.masterCards,
                                                          seed, removal.calls))]
                         ELSE [played EXCEPT !.isComplete = TRUE]]
       ELSE [warned |-> FALSE, state |-> played]

pickCard(state, cardIndex, seed) == PickCardRun(state, cardIndex, seed).state

\* Mutant of undoLastPick: the snapshot is returned with the turn of the
\* state that is undone.
undoLastPick_KeepsTurn(state) ==
  IF state.undoBuffer = Null THEN Null
  ELSE Some([deepClone(BufferedState(state.undoBuffer)) EXCEPT
               !.currentTurn = state.currentTurn])

\* Mutant of undoLastPick: without a buffer the state itself is returned.
undoLastPick_ReturnsSelf(state) ==
  IF state.undoBuffer = Null THEN Some(deepClone(state))
  ELSE Some(deepClone(BufferedState(state.undoBuffer)))

undoLastPick(state) ==
  IF state.undoBuffer = Null THEN Null
  ELSE Some(deepClone(BufferedState(state.undoBuffer)))

\* Mutant of findIndexOfRound: the index of the last entry of the round
\* (findLastIndex).
findIndexOfRound_LastEntry(log, round) ==
  IF \E j \in 1..Len(log) : log[j].round = round
    THEN (CHOOSE j \in 1..Len(log) :
            /\ log[j].round = round
            /\ \A h \in (j + 1)..Len(log) : log[h].round # round) - 1
    ELSE -1

\* log.findIndex(entry => entry.round === round), 0-based, -1 when none.
findIndexOfRound(log, round) ==
  IF \E j \in 1..Len(log) : log[j].round = round
    THEN (CHOOSE j \in 1..Len(log) :
            /\ log[j].round = round
            /\ \A h \in 1..(j - 1) : log[h].round # round) - 1
    ELSE -1

\* Mutant of resetRound: the new round replaces the first round of the draft.
resetRound_ReplacesFirstRound(state, seed) ==
  LET newState == deepClone(state)
      currentRoundStartIdx == findIndexOfRound(newState.log, newState.currentRound)
      truncated == IF currentRoundStartIdx # -1
                     THEN [newState EXCEPT
                             !.picks = SubSeq(newState.picks, 1, currentRoundStartIdx),
                             !.log = SubSeq(newState.log, 1, currentRoundStartIdx)]
                     ELSE newState
  IN [truncated EXCEPT
        !.rounds[1] =
           createRound(newState.currentRound, newState.masterCards, seed, 0),
        !.currentTurn = 1,
        !.undoBuffer = Null]

\* Mutant of resetRound: the undo buffer is not cleared.
resetRound_KeepsUndoBuffer(state, seed) ==
  LET newState == deepClone(state)
      currentRoundStartIdx == findIndexOfRound(newState.log, newState.currentRound)
      truncated == IF currentRoundStartIdx # -1
                     THEN [newState EXCEPT
                             !.picks = SubSeq(newState.picks, 1, currentRoundStartIdx),
                             !.log = SubSeq(newState.log, 1, currentRoundStartIdx)]
                     ELSE newState
  IN [truncated EXCEPT
        !.rounds[Len(newState.rounds)] =
           createRound(newState.currentRound, newState.masterCards, seed, 0),
        !.currentTurn = 1]

\* Mutant of resetRound: the turn is not set back to 1.
resetRound_KeepsTurn(state, seed) ==
  LET newState == deepClone(state)
      currentRoundStartIdx == findIndexOfRound(newState.log, newState.currentRound)
      truncated == IF currentRoundStartIdx # -1
                     THEN [newState EXCEPT
                             !.picks = SubSeq(newState.picks, 1, currentRoundStartIdx),
                             !.log = SubSeq(newState.log, 1, currentRoundStartIdx)]
                     ELSE newState
  IN [truncated EXCEPT
        !.rounds[Len(newState.rounds)] =
           createRound(newState.currentRound, newState.masterCards, seed, 0),
        !.undoBuffer = Null]

\* Mutant of resetRound: the new round is pushed behind the round it is to
\* replace.
resetRound_AppendsRound(state, seed) ==
  LET newState == deepClone(state)
      currentRoundStartIdx == findIndexOfRound(newState.log, newState.currentRound)
      truncated == IF currentRoundStartIdx # -1
                     THEN [newState EXCEPT
                             !.picks = SubSeq(newState.picks, 1, currentRoundStartIdx),
                             !.log = SubSeq(newState.log, 1, currentRoundStartIdx)]
                     ELSE newState
  IN [truncated EXCEPT
        !.rounds = Append(newState.rounds,
                          createRound(newState.currentRound, newState.masterCards, seed, 0)),
        !.currentTurn = 1,
        !.undoBuffer = Null]

resetRound(state, seed) ==
  LET newState == deepClone(state)
      currentRoundStartIdx == findIndexOfRound(newState.log, newState.currentRound)
      truncated == IF currentRoundStartIdx # -1
                     THEN [newState EXCEPT
                             !.picks = SubSeq(newState.picks, 1, currentRoundStartIdx),
                             !.log = SubSeq(newState.log, 1, currentRoundStartIdx)]
                     ELSE newState
  IN [truncated EXCEPT
        !.rounds[Len(newState.rounds)] =
           createRound(newState.currentRound, newState.masterCards, seed, 0),
        !.currentTurn = 1,
        !.undoBuffer = Null]

\* Mutant of resetDraft: the new draft starts at turn 2.
resetDraft_StartsAtTurnTwo(masterCards, seed) ==
  [createNewDraft(masterCards, seed) EXCEPT !.currentTurn = 2]

resetDraft(masterCards, seed) == createNewDraft(masterCards, seed)

\* Mutant of TallyKey: the colour is left out of the key.
TallyKey_NameOnly(fullName, color) == fullName

\* The key of the map of getTally.
TallyKey(fullName, color) == fullName \o "|" \o color

RECURSIVE TallyMap(_, _, _)
\* The values of the map of getTally, in insertion order, after the picks
\* from position j on have been counted.
TallyMap(picks, j, entries) ==
  IF j > Len(picks) THEN entries
  ELSE LET key == TallyKey(CardFullName(picks[j]), CardColor(picks[j]))
           found == {e \in 1..Len(entries) :
                       TallyKey(entries[e].fullName, entries[e].color) = key}
       IN IF found # {}
            THEN TallyMap(picks, j + 1,
                          [e \in 1..Len(entries) |->
                             IF e \in found
                               THEN [entries[e] EXCEPT !.count = @ + 1]
                               ELSE entries[e]])
            ELSE TallyMap(picks, j + 1,
                          Append(entries, [count |-> 1,
                                           fullName |-> CardFullName(picks[j]),
                                           color |-> CardColor(picks[j])]))

\* The comparator of the sort of getTally.
TallyCompare(a, b) ==
  IF a.count # b.count THEN b.count - a.count
  ELSE localeCompare(a.fullName, b.fullName)

\* An entry put into a sorted array behind the last entry that the
\* comparator does not place after it.
InsertInOrder(sorted, entry) ==
  LET notAfter == {p \in 1..Len(sorted) : TallyCompare(sorted[p], entry) <= 0}
      p == IF notAfter = {} THEN 0
           ELSE CHOOSE q \in notAfter : \A h \in notAfter : h <= q
  IN SubSeq(sorted, 1, p) \o <<entry>> \o SubSeq(sorted, p + 1, Len(sorted))

RECURSIVE SortTally(_, _, _)
\* tally.sort(comparator), a stable sort: the entries from position j on are
\* put in order one after the other.
SortTally(entries, j, sorted) ==
  IF j > Len(entries) THEN sorted
  ELSE SortTally(entries, j + 1, InsertInOrder(sorted, entries[j]))

getTally(picks) == SortTally(TallyMap(picks, 1, <<>>), 1, <<>>)

\* The line of an entry in the copy text.
TallyLine(entry) == ToString(entry.count) \o " " \o entry.fullName

RECURSIVE JoinLines_TrailingNewline(_, _)
\* Mutant of JoinLines: every line is ended by a newline.
JoinLines_TrailingNewline(lines, j) ==
  IF j > Len(lines) THEN ""
  ELSE lines[j] \o "\n" \o JoinLines_TrailingNewline(lines, j + 1)

RECURSIVE JoinLines(_, _)
\* lines.join('\n') from position j on.
JoinLines(lines, j) ==
  IF j > Len(lines) THEN ""
  ELSE IF j = Len(lines) THEN lines[j]
  ELSE lines[j] \o "\n" \o JoinLines(lines, j + 1)

generateCopyTextWithoutColor(picks) ==
  LET tally == getTally(picks)
  IN JoinLines([j \in 1..Len(tally) |-> TallyLine(tally[j])], 1)

\* ------------------------------------------------------------ SavedDecks.tsx
\* What \s matches and trim() strips, and the decimal digits in the order of
\* their values.
Whitespace == {" ", "\t", "\n", "\r"}
DecimalDigits == <<"0", "1", "2", "3", "4", "5", "6", "7", "8", "9">>
IsDigit(c) == \E d \in 1..Len(DecimalDigits) : DecimalDigits[d] = c
DigitValue(c) == (CHOOSE d \in 1..Len(DecimalDigits) : DecimalDigits[d] = c) - 1
CharAt(s, i) == SubSeq(s, i, i)

RECURSIVE trimStart(_)
trimStart(s) ==
  IF Len(s) > 0 /\ CharAt(s, 1) \in Whitespace
    THEN trimStart(SubSeq(s, 2, Len(s)))
    ELSE s

RECURSIVE trimEnd(_)
trimEnd(s) ==
  IF Len(s) > 0 /\ CharAt(s, Len(s)) \in Whitespace
    THEN trimEnd(SubSeq(s, 1, Len(s) - 1))
    ELSE s

trim(s) == trimEnd(trimStart(s))

RECURSIVE DigitsFrom(_, _)
\* The number of digits that s has in a row from position i on.
DigitsFrom(s, i) ==
  IF i <= Len(s) /\ IsDigit(CharAt(s, i)) THEN 1 + DigitsFrom(s, i + 1) ELSE 0

RECURSIVE WhitespaceFrom(_, _)
\* The number of whitespace characters that s has in a row from position i on.
WhitespaceFrom(s, i) ==
  IF i <= Len(s) /\ CharAt(s, i) \in Whitespace
    THEN 1 + WhitespaceFrom(s, i + 1)
    ELSE 0

RECURSIVE DecimalValue(_, _, _)
\* The value of the n digits of s that end at position i.
DecimalValue(s, i, n) ==
  IF n = 0 THEN 0
  ELSE 10 * DecimalValue(s, i - 1, n - 1) + DigitValue(CharAt(s, i))

\* parseInt(s, 10): leading whitespace and a sign are skipped, the digits
\* that follow are the value, and without a digit there the result is NaN.
parseInt(s) ==
  LET t == trimStart(s)
      signed == Len(t) > 0 /\ CharAt(t, 1) \in {"-", "+"}
      first == IF signed THEN 2 ELSE 1
      n == DigitsFrom(t, first)
      value == DecimalValue(t, first + n - 1, n)
  IN IF n = 0 THEN [isNaN |-> TRUE, value |-> 0]
     ELSE [isNaN |-> FALSE,
           value |-> IF signed /\ CharAt(t, 1) = "-" THEN 0 - value ELSE value]

\* line.match(/^(\d+)\s+(.+)$/): the digits the line starts with, then
\* whitespace, as much of it as leaves a rest of at least one character, and
\* the rest up to the end of the line, which holds no line terminator.
LineTerminators == {"\n", "\r"}
newFormatMatch(line) ==
  LET d == DigitsFrom(line, 1)
      w == WhitespaceFrom(line, d + 1)
      gaps == {k \in 1..w :
                 /\ d + k < Len(line)
                 /\ \A i \in (d + k + 1)..Len(line) :
                      CharAt(line, i) \notin LineTerminators}
      spaces == CHOOSE k \in gaps : \A h \in gaps : h <= k
  IN IF d = 0 \/ gaps = {}
       THEN [matched |-> FALSE, count |-> "", rest |-> ""]
       ELSE [matched |-> TRUE,
             count |-> SubSeq(line, 1, d),
             rest |-> SubSeq(line, d + spaces + 1, Len(line))]

RECURSIVE split(_, _, _, _)
\* s.split(separator) from position i on, current being the part read so far.
split(s, separator, i, current) ==
  IF i > Len(s) THEN <<current>>
  ELSE IF /\ i + Len(separator) - 1 <= Len(s)
          /\ SubSeq(s, i, i + Len(separator) - 1) = separator
    THEN <<current>> \o split(s, separator, i + Len(separator), "")
  ELSE split(s, separator, i + 1, current \o CharAt(s, i))

RECURSIVE join(_, _, _)
\* parts.join(separator) from part j on.
join(parts, separator, j) ==
  IF j > Len(parts) THEN ""
  ELSE IF j = Len(parts) THEN parts[j]
  ELSE parts[j] \o separator \o join(parts, separator, j + 1)

\* The six colours an old-format line can end in, and the colour of an entry
\* parsed without one (null, which is as false as the empty text).
ImportColors == {"Amber", "Amethyst", "Emerald", "Ruby", "Sapphire", "Steel"}
NoColor == ""

ParsedEntry(count, fullName, color) ==
  [count |-> count, fullName |-> fullName, color |-> color]

\* Mutant of ParseLine: the formats with dashes are tried before the new
\* format.
ParseLine_DashesFirst(line) ==
  LET newFormatMatched == newFormatMatch(line)
      newCount == parseInt(newFormatMatched.count)
      newName == trim(newFormatMatched.rest)
      parts == split(line, " - ", 1, "")
      count == parseInt(trim(parts[1]))
      lastPart == trim(parts[Len(parts)])
      oldName == trim(join(SubSeq(parts, 2, Len(parts) - 1), " - ", 1))
      plainName == trim(join(SubSeq(parts, 2, Len(parts)), " - ", 1))
  IN IF /\ Len(parts) >= 3
        /\ ~count.isNaN /\ count.value > 0
        /\ lastPart \in ImportColors
        /\ oldName # ""
       THEN <<ParsedEntry(count.value, oldName, lastPart)>>
     ELSE IF /\ Len(parts) >= 2
             /\ ~count.isNaN /\ count.value > 0
             /\ plainName # ""
       THEN <<ParsedEntry(count.value, plainName, NoColor)>>
     ELSE IF /\ newFormatMatched.matched
             /\ ~newCount.isNaN /\ newCount.value > 0
             /\ newName # ""
       THEN <<ParsedEntry(newCount.value, newName, NoColor)>>
     ELSE <<>>

\* The body of the loop of parseDeckText for one line: the entries, none or
\* one, that the line adds to the parsed list.  The new format is tried
\* first, then the old format with a colour, then the dashes without one.
ParseLine(line) ==
  LET newFormatMatched == newFormatMatch(line)
      newCount == parseInt(newFormatMatched.count)
      newName == trim(newFormatMatched.rest)
      parts == split(line, " - ", 1, "")
      count == parseInt(trim(parts[1]))
      lastPart == trim(parts[Len(parts)])
      oldName == trim(join(SubSeq(parts, 2, Len(parts) - 1), " - ", 1))
      plainName == trim(join(SubSeq(parts, 2, Len(parts)), " - ", 1))
  IN IF /\ newFormatMatched.matched
        /\ ~newCount.isNaN /\ newCount.value > 0
        /\ newName # ""
       THEN <<ParsedEntry(newCount.value, newName, NoColor)>>
     ELSE IF Len(parts) >= 3 /\ (count.isNaN \/ count.value <= 0)
       THEN <<>>
     ELSE IF /\ Len(parts) >= 3
             /\ lastPart \in ImportColors
             /\ oldName # ""
       THEN <<ParsedEntry(count.value, oldName, lastPart)>>
     ELSE IF /\ Len(parts) >= 2
             /\ ~count.isNaN /\ count.value > 0
             /\ plainName # ""
       THEN <<ParsedEntry(count.value, plainName, NoColor)>>
     ELSE <<>>

RECURSIVE ParseLines(_, _)
ParseLines(lines, j) ==
  IF j > Len(lines) THEN <<>>
  ELSE IF trim(lines[j]) = "" THEN ParseLines(lines, j + 1)
  ELSE ParseLine(lines[j]) \o ParseLines(lines, j + 1)

\* parseDeckText: the entries of the lines of the trimmed text that are not
\* blank.
parseDeckText(text) == ParseLines(split(trim(text), "\n", 1, ""), 1)

\* ------------------------------------------------- draft.ts: resuming a draft
\* The baseCard field of a card object is true, false or absent.  What is
\* saved of a draft and what the card file holds is laid over the ids by a
\* shift: the card objects of a draft carry the flag FlagOf(id, shift), and
\* the card file lists the card of an id with the flag LookupFlag(id, shift)
\* or does not list it ("missing").
BaseCardFlags == <<"true", "false", "absent">>
LookupFlags == <<"true", "false", "absent", "missing">>
FlagShifts == 0..(Len(LookupFlags) - 1)
FlagOf(card, shift) == BaseCardFlags[((card + shift) % Len(BaseCardFlags)) + 1]
LookupFlag(card, shift) == LookupFlags[((card + shift) % Len(LookupFlags)) + 1]

\* The card object of an id; a null entry of a list has no fields.
CardObject(card, shift) ==
  IF card \in {NullCard, Undefined}
    THEN [id |-> NullCard, baseCard |-> "null"]
    ELSE [id |-> card, baseCard |-> FlagOf(card, shift)]
CardId(object) == object.id

\* The fields of a DraftState without its undo buffer, with Touched applied
\* to the cards of masterCards, picks, packs and log entries and Other to the
\* cards kept elsewhere.
ConvertFields(state, Touched(_), Other(_)) ==
  [state EXCEPT
     !.masterCards = <<>> \o [j \in 1..Len(@) |-> Touched(@[j])],
     !.picks = <<>> \o [j \in 1..Len(@) |-> Touched(@[j])],
     !.rounds = <<>> \o [r \in 1..Len(@) |->
                  [@[r] EXCEPT !.packs = <<>> \o [p \in 1..Len(@) |->
                     [@[p] EXCEPT
                        !.cards = <<>> \o [j \in 1..Len(@) |-> Touched(@[j])],
                        !.removedLog = <<>> \o [j \in 1..Len(@) |-> Other(@[j])]]]]],
     !.log = <<>> \o [e \in 1..Len(@) |-> [@[e] EXCEPT !.picked = Touched(@)]]]

\* The same over a DraftState and the snapshots of its undo buffer.
ConvertCards(state, Touched(_), Other(_)) ==
  [ConvertFields(state, Touched, Other) EXCEPT
     !.undoBuffer = <<>> \o [j \in 1..Len(@) |-> ConvertFields(@[j], Touched, Other)]]

\* A DraftState with card objects in the place of ids, and back.
WithCardObjects(state, shift) ==
  ConvertCards(state, LAMBDA card : CardObject(card, shift),
                      LAMBDA card : CardObject(card, shift))
WithCardIds(state) == ConvertCards(state, CardId, CardId)

\* Mutant of enrichCardWithBaseCard: a card that the card file does not
\* list is left out (its id is lost).
enrichCardWithBaseCard_DropsUnlisted(card, lookupShift) ==
  LET masterCard == LookupFlag(card.id, lookupShift)
  IN IF masterCard \notin {"missing", "absent"}
       THEN [card EXCEPT !.baseCard = masterCard]
     ELSE IF masterCard = "missing"
       THEN [id |-> NullCard, baseCard |-> "null"]
     ELSE IF card.baseCard # "absent" THEN card
     ELSE [card EXCEPT !.baseCard = "true"]

\* enrichCardWithBaseCard(card, masterCardLookup): the flag of the card that
\* the lookup has under the id, if it has one with a flag; else the flag the
\* card has; else true.
enrichCardWithBaseCard(card, lookupShift) ==
  LET masterCard == LookupFlag(card.id, lookupShift)
  IN IF masterCard \notin {"missing", "absent"}
       THEN [card EXCEPT !.baseCard = masterCard]
     ELSE IF card.baseCard # "absent" THEN card
     ELSE [card EXCEPT !.baseCard = "true"]

\* enrichDraftStateWithBaseCard(state, masterCards) over card objects.
enrichDraftStateWithBaseCard(state, lookupShift) ==
  ConvertCards(state, LAMBDA card : enrichCardWithBaseCard(card, lookupShift),
                      LAMBDA card : card)

\* Enriching reads the id of every pick and of the pick of every log entry,
\* and throws on a null one.
EnrichThrows(state) ==
  \/ \E j \in 1..Len(state.picks) : state.picks[j] \in {NullCard, Undefined}
  \/ \E j \in 1..Len(state.undoBuffer) :
       \E h \in 1..Len(state.undoBuffer[j].picks) :
         state.undoBuffer[j].picks[h] \in {NullCard, Undefined}

\* -------------------------------------------------------------- database.ts
\* The saved_drafts table is a sequence of rows in the order of their
\* created_at, the latest row last; a row holds its name and the DraftState
\* that JSON.parse gives back from its draft_state_json.  Timestamps of
\* different writes are taken to differ.
CurrentDraftName == "Current Draft"

DraftRow(name, state) == [name |-> name, draftState |-> deepClone(state)]

\* saveDraft inserts a row of the given name.
saveDraft(table, name, state) == Append(table, DraftRow(name, state))

\* getLatestDraftState: the row with the latest created_at, whatever its
\* name.
getLatestDraftState(table) ==
  IF table = <<>> THEN Null ELSE Some(table[Len(table)].draftState)

\* saveCurrentDraftState updates state and created_at of the first row named
\* 'Current Draft', or inserts such a row when there is none.
saveCurrentDraftState(table, state) ==
  IF \E j \in 1..Len(table) : table[j].name = CurrentDraftName
    THEN LET id == CHOOSE j \in 1..Len(table) :
                     /\ table[j].name = CurrentDraftName
                     /\ \A h \in 1..(j - 1) : table[h].name # CurrentDraftName
         IN SubSeq(table, 1, id - 1) \o SubSeq(table, id + 1, Len(table))
              \o <<DraftRow(CurrentDraftName, state)>>
    ELSE Append(table, DraftRow(CurrentDraftName, state))

\* clearCurrentDraftState deletes the rows named 'Current Draft'.
clearCurrentDraftState(table) ==
  SelectSeq(table, LAMBDA row : row.name # CurrentDraftName)

\* --------------------------------------------------------------- storage.ts
\* saveState, loadState and clearState over a table, succeeded telling
\* whether the database call went through or threw: an error is caught and
\* logged, the table is left as it was and a load gives null.
\* Mutant of saveState: a failed save leaves an empty table behind.
saveState_FailureWipes(table, state, succeeded) ==
  IF succeeded THEN saveCurrentDraftState(table, state) ELSE <<>>

saveState(table, state, succeeded) ==
  IF succeeded THEN saveCurrentDraftState(table, state) ELSE table

loadState(table, succeeded) ==
  IF succeeded THEN getLatestDraftState(table) ELSE Null

clearState(table, succeeded) ==
  IF succeeded THEN clearCurrentDraftState(table) ELSE table

\* ------------------------------------------------------------- deckUtils.js
\* The cards of a deck carry the fields the deck functions read.  cost is
\* [isNumber, value], isNumber being typeof card.cost === 'number'; type is
\* "" for a card without a type; keywordAbilities is empty for a card
\* without the field.
DeckCard(fullName, color, cost, type, keywordAbilities) ==
  [fullName |-> fullName, color |-> color, cost |-> cost, type |-> type,
   keywordAbilities |-> keywordAbilities]

NumberCost(value) == [isNumber |-> TRUE, value |-> value]
NoCost == [isNumber |-> FALSE, value |-> 0]

\* The cards that decks are made of.
DeckCatalogue ==
  <<DeckCard("Card B", "Amber", NumberCost(2), "Character", <<>>),
    DeckCard("Card A", "Ruby", NumberCost(2), "character", <<"Rush", "EVASIVE">>),
    DeckCard("Card A", "Amber", NoCost, "", <<"Evasive">>),
    DeckCard("Card C - Gold", "Ruby", NumberCost(1), "item", <<"evasive">>),
    DeckCard("Card B", "Ruby", NumberCost(1), "SONG", <<>>),
    DeckCard("Card A", "Amber", NumberCost(3), " Action", <<>>)>>

UpperCaseLetters == "ABCDEFGHIJKLMNOPQRSTUVWXYZ"
LowerCaseLetters == "abcdefghijklmnopqrstuvwxyz"

RECURSIVE toLowerCase(_)
\* s.toLowerCase()
toLowerCase(s) ==
  IF s = "" THEN ""
  ELSE LET c == CharAt(s, 1)
           upper == {i \in 1..Len(UpperCaseLetters) : CharAt(UpperCaseLetters, i) = c}
       IN (IF upper = {} THEN c
           ELSE CharAt(LowerCaseLetters, CHOOSE i \in upper : TRUE))
          \o toLowerCase(SubSeq(s, 2, Len(s)))

TYPE_ORDER == <<"Character", "Action", "Song">>

resolveCardType(card) ==
  LET baseType == trim(card.type)
      normalized == toLowerCase(baseType)
  IN IF baseType = "" THEN "Other"
     ELSE IF normalized = "character" THEN "Character"
     ELSE IF normalized = "action" THEN "Action"
     ELSE IF normalized = "song" THEN "Song"
     ELSE baseType

hasKeyword(card, keyword) ==
  IF Len(card.keywordAbilities) = 0 THEN FALSE
  ELSE LET target == toLowerCase(keyword)
       IN \E k \in 1..Len(card.keywordAbilities) :
            toLowerCase(card.keywordAbilities[k]) = target

\* array.includes(value)
includes(array, value) == \E i \in 1..Len(array) : array[i] = value

\* The filters with the defaults of matchesFilters for the fields left out.
CardFilters(colors, costs, types, evasiveOnly) ==
  [colors |-> colors, costs |-> costs, types |-> types, evasiveOnly |-> evasiveOnly]

NoFilters == CardFilters(<<>>, <<>>, <<>>, FALSE)

matchesFilters(card, filters) ==
  LET cost == IF card.cost.isNumber THEN card.cost.value ELSE -1
      cardType == resolveCardType(card)
  IN IF Len(filters.colors) > 0 /\ ~includes(filters.colors, card.color) THEN FALSE
     ELSE IF Len(filters.costs) > 0 /\ ~includes(filters.costs, cost) THEN FALSE
     ELSE IF Len(filters.types) > 0 /\ ~includes(filters.types, cardType) THEN FALSE
     ELSE IF filters.evasiveOnly /\ ~hasKeyword(card, "Evasive") THEN FALSE
     ELSE TRUE

filterCards(cards, filters) ==
  SelectSeq(cards, LAMBDA card : matchesFilters(card, filters))

SortOptions == {"default", "cost-asc", "cost-desc", "name", "color"}

\* getCost(a) - getCost(b) by its sign where a cost is missing: getCost is
\* Number.MAX_SAFE_INTEGER for a card without a cost, above every cost.
CostDifference(a, b) ==
  IF a.cost.isNumber /\ b.cost.isNumber THEN a.cost.value - b.cost.value
  ELSE IF a.cost.isNumber THEN -1
  ELSE IF b.cost.isNumber THEN 1
  ELSE 0

\* getSortComparator(sortOption)(a, b); an option outside SortOptions
\* falls back to the default comparator.
SortComparator(sortOption, a, b) ==
  LET byCost == IF CostDifference(a, b) # 0 THEN CostDifference(a, b)
                ELSE localeCompare(a.fullName, b.fullName)
  IN CASE sortOption = "cost-desc" ->
            IF CostDifference(b, a) # 0 THEN CostDifference(b, a)
            ELSE localeCompare(a.fullName, b.fullName)
       [] sortOption = "name" -> localeCompare(a.fullName, b.fullName)
       [] sortOption = "color" ->
            IF localeCompare(a.color, b.color) # 0 THEN localeCompare(a.color, b.color)
            ELSE byCost
       [] OTHER -> byCost

RECURSIVE SortCardsFrom(_, _, _, _)
\* [...cards].sort(comparator), a stable sort: the cards from position j on
\* are put, one after the other, behind the last card that the comparator
\* does not place after them.
SortCardsFrom(cards, j, sorted, sortOption) ==
  IF j > Len(cards) THEN sorted
  ELSE LET notAfter == {p \in 1..Len(sorted) :
                          SortComparator(sortOption, sorted[p], cards[j]) <= 0}
           p == IF notAfter = {} THEN 0
                ELSE CHOOSE q \in notAfter : \A h \in notAfter : h <= q
       IN SortCardsFrom(cards, j + 1,
                        SubSeq(sorted, 1, p) \o <<cards[j]>>
                          \o SubSeq(sorted, p + 1, Len(sorted)),
                        sortOption)

sortCards(cards, sortOption) == SortCardsFrom(cards, 1, <<>>, sortOption)

RECURSIVE BucketKeys(_, _, _)
\* The keys of the Map buckets, in the order of their insertion.
BucketKeys(cards, j, keys) ==
  IF j > Len(cards) THEN keys
  ELSE BucketKeys(cards, j + 1,
                  IF includes(keys, resolveCardType(cards[j])) THEN keys
                  ELSE Append(keys, resolveCardType(cards[j])))

\* buckets.get(type), the cards of a type in input order.
Bucket(cards, type) ==
  SelectSeq(cards, LAMBDA card : resolveCardType(card) = type)

RECURSIVE SortTypes(_, _, _)
\* keys.sort((a, b) => a.localeCompare(b))
SortTypes(types, j, sorted) ==
  IF j > Len(types) THEN sorted
  ELSE LET notAfter == {p \in 1..Len(sorted) : localeCompare(sorted[p], types[j]) <= 0}
           p == IF notAfter = {} THEN 0
                ELSE CHOOSE q \in notAfter : \A h \in notAfter : h <= q
       IN SortTypes(types, j + 1,
                    SubSeq(sorted, 1, p) \o <<types[j]>>
                      \o SubSeq(sorted, p + 1, Len(sorted)))

groupCardsByType_UnsortedRest(cards, sortOption) ==
  LET keys == BucketKeys(cards, 1, <<>>)
      ordered == SelectSeq(TYPE_ORDER, LAMBDA type : includes(keys, type))
      remainingTypes == SelectSeq(keys, LAMBDA type : ~includes(TYPE_ORDER, type))
      types == ordered \o remainingTypes
  IN <<>> \o [g \in 1..Len(types) |->
                [type |-> types[g], cards |-> sortCards(Bucket(cards, types[g]), sortOption)]]

groupCardsByType(cards, sortOption) ==
  LET keys == BucketKeys(cards, 1, <<>>)
      ordered == SelectSeq(TYPE_ORDER, LAMBDA type : includes(keys, type))
      remainingTypes ==
        SortTypes(SelectSeq(keys, LAMBDA type : ~includes(TYPE_ORDER, type)), 1, <<>>)
      types == ordered \o remainingTypes
  IN <<>> \o [g \in 1..Len(types) |->
                [type |-> types[g], cards |-> sortCards(Bucket(cards, types[g]), sortOption)]]

buildDisplayGroups(cards, filters, sortOption) ==
  LET filtered == filterCards(cards, filters)
  IN [filteredCards |-> filtered, groups |-> groupCardsByType(filtered, sortOption)]

\* No deck function has been called.
NoDeckCall ==
  [call |-> "", cards |-> <<>>, filters |-> NoFilters, sortOption |-> "default",
   filteredCards |-> <<>>, groups |-> <<>>]

\* ------------------------------------------------------------------ App.tsx
VARIABLES
  masterCards,  \* the card pool loaded by the app
  draftState,   \* the current DraftState
  toast,        \* the notice the last handler showed ("" when it showed none)
  warned,       \* whether the last handler wrote the integrity warning
  lastCall,     \* the handler that ran last, with its argument
  savedDrafts,  \* the saved_drafts table of the database
  storage,      \* how the database behaves: "reliable" or "unreliable"
  saveFailed,   \* whether the last storage call logged an error
  heap,         \* the DraftState objects a caller of the draft functions holds
  deckView,     \* the last call of a deck function: its arguments and its result
  db,           \* the module variable db of database.ts: 0 for null, else the
                \* number of the SQL.Database it refers to
  instances,    \* the saved_drafts table of every SQL.Database created so far
  durable,      \* the stored database file: Null, or Some(table) once written
  storageCalls,        \* the storage calls the app has started, in the order of start
  mount         \* the mount effect of App: what its closures hold

\* The variables of the storage calls in flight.
asyncVars == <<db, instances, durable, storageCalls, mount>>

vars == <<masterCards, draftState, toast, warned, lastCall,
          savedDrafts, storage, saveFailed, heap, deckView, asyncVars>>

\* The outcomes a database call can have: it goes through on a reliable
\* database, and goes through or throws on an unreliable one.
StorageOutcomes == IF storage = "reliable" THEN {TRUE} ELSE BOOLEAN

\* The effect on [draftState]: when a handler has set a new draft state, it
\* is saved, and a failure of the save is logged.
SaveEffect(changed) ==
  /\ UNCHANGED storage
  /\ IF changed
       THEN \E succeeded \in StorageOutcomes :
              /\ savedDrafts' = saveState(savedDrafts, draftState', succeeded)
              /\ saveFailed' = ~succeeded
       ELSE UNCHANGED <<savedDrafts, saveFailed>>

\* The same effect after a storage call of the handler itself has left the
\* given table and outcome.
SaveEffectAfter(table, failed) ==
  /\ UNCHANGED storage
  /\ \E succeeded \in StorageOutcomes :
       /\ savedDrafts' = saveState(table, draftState', succeeded)
       /\ saveFailed' = (failed \/ ~succeeded)

\* The number of snapshots nested in the undo buffer of a state.
UndoDepth(state) == Len(state.undoBuffer)

ActivePack(state) ==
  state.rounds[Len(state.rounds)].packs[getActivePackIndex(state.currentTurn) + 1]

\* The card buttons PackView renders for the active pack.
OfferedIndices(state) == 0..(Len(ActivePack(state).cards) - 1)

\* DraftBoard is rendered while the draft is not complete, with one button
\* for every card of the active pack.
ValidCardIndex(state, cardIndex) ==
  /\ ~state.isComplete
  /\ cardIndex \in OfferedIndices(state)

\* The pick at turn FreeTurn of round 1 explores every input; the other
\* picks take the first card and the random tape of seed 0.
InputsExplored(state, cardIndex, seed) ==
  \/ state.currentRound = 1 /\ state.currentTurn = FreeTurn
  \/ cardIndex = 0 /\ seed = 0

\* A reset draws its round from every tape in round 1 and from the tape of
\* seed 0 later on.
ResetSeedExplored(state, seed) ==
  \/ state.currentRound = 1
  \/ seed = 0

\* ---------------------------------------- database.ts: the calls in flight
\* loadState and saveState are async functions, and App awaits neither of
\* them before it goes on: the mount effect starts loadState next to the
\* fetch of the card file, and the save effect starts saveState for every
\* new draftState.  A call is a record of its kind ("loadState" or
\* "saveState"), the await it is suspended at (pc), the DraftState it was
\* given, the SQL.Database that initDatabase returned to it, and the bytes
\* that saveDatabase exported for it.  A call is suspended
\*   at "initDatabase", inside initDatabase, before the database is created
\*     (initSqlJs and readDatabaseFromFile are awaited there);
\*   at "saveDatabase", inside initDatabase, while the database created
\*     from no file is written for the first time;
\*   at "writeDatabaseToFile", inside saveDatabase, while the export is
\*     written to the file;
\* and is "done" after that.  Continuations that only microtasks separate
\* run as one step.
StorageCall(kind, pc, state, database, data) ==
  [kind |-> kind, pc |-> pc, state |-> state, database |-> database, data |-> data]

\* The draftState of App before a draft is set (null).
NoDraft ==
  [masterCards |-> <<>>, rounds |-> <<>>, currentRound |-> 0, currentTurn |-> 0,
   picks |-> <<>>, log |-> <<>>, isComplete |-> FALSE, undoBuffer |-> Null]

\* No storage call was started (the specifications of the handlers, where
\* a save is one step of its handler).
NoStorageCalls ==
  /\ db = 0
  /\ instances = <<>>
  /\ durable = Null
  /\ storageCalls = <<>>
  /\ mount = [cardsLoaded |-> TRUE, savedDraftWaiting |-> Null, userStarted |-> FALSE]

\* saveCurrentDraftState(state) from the point where initDatabase has
\* returned the instance database: the row is written into that instance,
\* and saveDatabase exports the instance that the module variable db refers
\* to and leaves the write of the export in flight.
SaveThrough(database, dbNow, tables, state) ==
  LET written == [tables EXCEPT ![database] = saveCurrentDraftState(@, state)]
  IN [instances |-> written,
      call |-> StorageCall("saveState", "writeDatabaseToFile", state, database, written[dbNow])]

\* The save effect runs for a new draftState: saveState(state) calls
\* saveCurrentDraftState, which awaits initDatabase.  While db is null the
\* call goes into the initialization; else initDatabase returns db at once.
SaveStarted(dbNow, tables, state) ==
  IF dbNow = 0
    THEN [instances |-> tables,
          call |-> StorageCall("saveState", "initDatabase", state, 0, <<>>)]
    ELSE SaveThrough(dbNow, dbNow, tables, state)

\* enrichAndLoadSavedDraft(saved, cards): the saved draft, enriched from the
\* card file, becomes the draft state.
EnrichedDraft(saved) ==
  WithCardIds(enrichDraftStateWithBaseCard(WithCardObjects(saved, 0), 0))

\* The variables of the handlers that a step in the background leaves.
BackgroundFrame ==
  UNCHANGED <<toast, warned, savedDrafts, storage, saveFailed, heap, deckView>>

\* initDatabase has returned the instance database to the call t, and the
\* call goes on.  saveCurrentDraftState writes its row and starts the
\* write.  loadState returns the latest draft of the instance to
\* loadSavedDraft: with a saved draft and the cards loaded, the draft is
\* enriched and set (the save effect then runs for it); with a saved draft
\* and the cards not yet loaded, the draft waits for loadCards; with none,
\* nothing is set.
Returned(t, database, dbNow, tables) ==
  IF storageCalls[t].kind = "saveState"
    THEN LET through == SaveThrough(database, dbNow, tables, storageCalls[t].state)
         IN /\ instances' = through.instances
            /\ storageCalls' = [storageCalls EXCEPT ![t] = through.call]
            /\ UNCHANGED <<draftState, mount>>
    ELSE LET saved == getLatestDraftState(tables[database])
             done == [storageCalls EXCEPT ![t] =
                        StorageCall("loadState", "done", @.state, database, <<>>)]
         IN IF saved = Null
              THEN /\ instances' = tables
                   /\ storageCalls' = done
                   /\ UNCHANGED <<draftState, mount>>
            ELSE IF ~mount.cardsLoaded
              THEN /\ instances' = tables
                   /\ storageCalls' = done
                   /\ mount' = [mount EXCEPT !.savedDraftWaiting = saved]
                   /\ UNCHANGED draftState
            ELSE LET started == SaveStarted(dbNow, tables, EnrichedDraft(saved[1]))
                 IN /\ draftState' = EnrichedDraft(saved[1])
                    /\ instances' = started.instances
                    /\ storageCalls' = Append(done, started.call)
                    /\ UNCHANGED mount

\* initDatabase, past its awaits of initSqlJs and readDatabaseFromFile: the
\* database is created from the file, or empty where there is no file, and
\* assigned to db.  With a file, db is returned to the caller; without one,
\* saveDatabase exports db and the call waits for the write.
InitDatabaseCreates(t) ==
  LET table == IF durable = Null THEN <<>> ELSE durable[1]
      tables == Append(instances, table)
      created == Len(instances) + 1
  IN /\ storageCalls[t].pc = "initDatabase"
     /\ db' = created
     /\ IF durable = Null
          THEN /\ instances' = tables
               /\ storageCalls' = [storageCalls EXCEPT ![t] =
                              StorageCall(@.kind, "saveDatabase", @.state, 0, table)]
               /\ UNCHANGED <<draftState, mount>>
          ELSE Returned(t, created, created, tables)
     /\ lastCall' = <<"initDatabase", t>>
     /\ UNCHANGED <<masterCards, durable>>
     /\ BackgroundFrame

\* The write that initDatabase waited for has closed the file, and
\* initDatabase returns what db refers to by now.
InitDatabaseReturns(t) ==
  /\ storageCalls[t].pc = "saveDatabase"
  /\ durable' = Some(storageCalls[t].data)
  /\ Returned(t, db, db, instances)
  /\ lastCall' = <<"initDatabase", t>>
  /\ UNCHANGED <<masterCards, db>>
  /\ BackgroundFrame

\* writeDatabaseToFile of a save: createWritable, write and close have gone
\* through, and the file holds the bytes of this call.  Nothing orders the
\* writes of different calls.
WriteDatabaseToFileCloses(t) ==
  /\ storageCalls[t].pc = "writeDatabaseToFile"
  /\ durable' = Some(storageCalls[t].data)
  /\ storageCalls' = [storageCalls EXCEPT ![t].pc = "done"]
  /\ lastCall' = <<"saveDatabase", t>>
  /\ UNCHANGED <<masterCards, draftState, db, instances, mount>>
  /\ BackgroundFrame

\* loadCards: the card file has arrived.  A saved draft that waited for the
\* cards is enriched and set.
LoadCards ==
  LET saved == mount.savedDraftWaiting
      started == SaveStarted(db, instances, EnrichedDraft(saved[1]))
  IN /\ ~mount.cardsLoaded
     /\ masterCards' = MasterPool(LargePoolSize)
     /\ IF saved # Null
          THEN /\ draftState' = EnrichedDraft(saved[1])
               /\ instances' = started.instances
               /\ storageCalls' = Append(storageCalls, started.call)
               /\ mount' = [mount EXCEPT !.cardsLoaded = TRUE, !.savedDraftWaiting = Null]
          ELSE /\ mount' = [mount EXCEPT !.cardsLoaded = TRUE]
               /\ UNCHANGED <<draftState, instances, storageCalls>>
     /\ lastCall' = <<"loadCards">>
     /\ UNCHANGED <<db, durable>>
     /\ BackgroundFrame

\* The user clicks New Draft, which is there once the cards are loaded, and
\* the save effect runs for the new draft.
ClickNewDraft ==
  LET newState == createNewDraft(masterCards, 0)
      started == SaveStarted(db, instances, newState)
  IN /\ mount.cardsLoaded
     /\ Len(storageCalls) < MaxStorageCalls
     /\ draftState' = newState
     /\ instances' = started.instances
     /\ storageCalls' = Append(storageCalls, started.call)
     /\ mount' = [mount EXCEPT !.userStarted = TRUE]
     /\ toast' = "New draft started!"
     /\ warned' = FALSE
     /\ lastCall' = <<"handleNewDraft">>
     /\ UNCHANGED <<masterCards, db, durable, savedDrafts, storage, saveFailed, heap,
                    deckView>>

\* The user picks the first card offered, and the save effect runs for the
\* new state.
ClickPickCard ==
  LET newState == pickCard(draftState, 0, 0)
      started == SaveStarted(db, instances, newState)
  IN /\ draftState # NoDraft
     /\ ValidCardIndex(draftState, 0)
     /\ Len(storageCalls) < MaxStorageCalls
     /\ draftState' = newState
     /\ instances' = started.instances
     /\ storageCalls' = Append(storageCalls, started.call)
     /\ toast' = ""
     /\ warned' = FALSE
     /\ lastCall' = <<"handlePickCard", 0>>
     /\ UNCHANGED <<masterCards, db, durable, mount, savedDrafts, storage, saveFailed,
                    heap, deckView>>

\* The draft an earlier session left in the file.
SavedEarlier ==
  pickCard(createNewDraft(MasterPool(LargePoolSize), MaxSeed), 0, 0)

\* The app is mounted: the fetch of the card file and loadState are in
\* flight, no draft is set, and the file is not there yet or holds the
\* draft of an earlier session.
InitAsync ==
  /\ masterCards = <<>>
  /\ draftState = NoDraft
  /\ toast = ""
  /\ warned = FALSE
  /\ lastCall = <<"mount">>
  /\ storage = "reliable"
  /\ savedDrafts = <<>>
  /\ saveFailed = FALSE
  /\ heap = <<>>
  /\ deckView = NoDeckCall
  /\ db = 0
  /\ instances = <<>>
  /\ durable \in {Null, Some(<<DraftRow(CurrentDraftName, SavedEarlier)>>)}
  /\ storageCalls = <<StorageCall("loadState", "initDatabase", NoDraft, 0, <<>>)>>
  /\ mount = [cardsLoaded |-> FALSE, savedDraftWaiting |-> Null, userStarted |-> FALSE]

NextAsync ==
  \/ LoadCards
  \/ ClickNewDraft
  \/ ClickPickCard
  \/ \E t \in 1..Len(storageCalls) : InitDatabaseCreates(t)
  \/ \E t \in 1..Len(storageCalls) : InitDatabaseReturns(t)
  \/ \E t \in 1..Len(storageCalls) : WriteDatabaseToFileCloses(t)

SpecAsync == InitAsync /\ [][NextAsync]_vars

Init ==
  /\ masterCards \in MasterPools
  /\ \E seed \in Seeds : draftState = createNewDraft(masterCards, seed)
  /\ toast = "New draft started!"
  /\ warned = FALSE
  /\ lastCall = <<"handleNewDraft">>
  /\ storage = "reliable"
  /\ savedDrafts = saveState(<<>>, draftState, TRUE)
  /\ saveFailed = FALSE
  /\ heap = <<>>
  /\ deckView = NoDeckCall
  /\ NoStorageCalls

\* handlePickCard(cardIndex), whatever the index.
PickCardCall(cardIndex, seed) ==
  LET run == PickCardRun(draftState, cardIndex, seed)
  IN /\ draftState' = run.state
     /\ warned' = run.warned
     /\ toast' = ""
     /\ lastCall' = <<"handlePickCard", cardIndex>>
     /\ UNCHANGED <<masterCards, heap, deckView, asyncVars>>
     /\ SaveEffect(draftState' # draftState)

\* A click on one of the cards of the active pack shown by DraftBoard.
HandlePickCard ==
  \E cardIndex \in 0..MaxCardIndex, seed \in Seeds :
    /\ ValidCardIndex(draftState, cardIndex)
    /\ InputsExplored(draftState, cardIndex, seed)
    /\ PickCardCall(cardIndex, seed)

\* The indices pickCard is called with directly: the offered ones, one below
\* them and one above them.
ApiIndices(state) ==
  {-1} \cup (0..MaxCardIndex) \cup {Len(ActivePack(state).cards)}

\* pickCard called with any index, on any state.
PickCardAnyIndex ==
  \E cardIndex \in ApiIndices(draftState), seed \in Seeds :
    /\ Len(draftState.picks) < NumRounds * TurnsPerRound + MaxExtraPicks
    /\ \/ InputsExplored(draftState, cardIndex, seed)
       \/ Len(draftState.picks) >= NumRounds * TurnsPerRound /\ seed = 0
    /\ PickCardCall(cardIndex, seed)

\* The Undo, Reset Round, Reset Draft and Quick Sim buttons are rendered
\* while the draft is not complete.
ControlsShown(state) == ~state.isComplete

\* The New Draft button, the confirmation accepted when a draft is running.
HandleNewDraft ==
  \E seed \in Seeds :
    /\ ResetSeedExplored(draftState, seed)
    /\ draftState' = createNewDraft(masterCards, seed)
    /\ toast' = "New draft started!"
    /\ warned' = FALSE
    /\ lastCall' = <<"handleNewDraft">>
    /\ UNCHANGED <<masterCards, heap, deckView, asyncVars>>
    /\ SaveEffect(TRUE)

\* handleUndo, also run when there is nothing to undo.
HandleUndo ==
  LET newState == undoLastPick(draftState)
  IN /\ ControlsShown(draftState)
     /\ IF newState # Null
          THEN draftState' = newState[1] /\ toast' = "Undo successful"
          ELSE draftState' = draftState /\ toast' = "Nothing to undo"
     /\ warned' = FALSE
     /\ lastCall' = <<"handleUndo">>
     /\ UNCHANGED <<masterCards, heap, deckView, asyncVars>>
     /\ SaveEffect(newState # Null)

\* The round reset is explored from states whose whole pick history can
\* still be undone, i.e. before any reset of a later round.
HandleResetRound ==
  \E seed \in Seeds :
    /\ ControlsShown(draftState)
    /\ UndoDepth(draftState) = Len(draftState.picks)
    /\ ResetSeedExplored(draftState, seed)
    /\ draftState' = resetRound(draftState, seed)
    /\ toast' = "Round reset"
    /\ warned' = FALSE
    /\ lastCall' = <<"handleResetRound">>
    /\ UNCHANGED <<masterCards, heap, deckView, asyncVars>>
    /\ SaveEffect(TRUE)

HandleResetDraft ==
  \E seed \in Seeds :
    /\ ControlsShown(draftState)
    /\ ResetSeedExplored(draftState, seed)
    /\ draftState' = resetDraft(masterCards, seed)
    /\ toast' = "Draft reset"
    /\ warned' = FALSE
    /\ lastCall' = <<"handleResetDraft">>
    /\ UNCHANGED <<masterCards, heap, deckView, asyncVars>>
    /\ SaveEffect(TRUE)

\* One pass of the while loop of handleQuickSim over the loop's state: the
\* draft state and whether a pick of the loop wrote the integrity warning.
\* The loop has ended when the draft is complete or the active pack is
\* empty (the break), and a pass after its end changes nothing.
\* Mutant of QuickSimEnded: the loop also breaks on a pack down to its last
\* card.
QuickSimEnded_BreaksOnLastCard(sim) ==
  \/ sim.state.isComplete
  \/ Len(ActivePack(sim.state).cards) <= 1

QuickSimEnded(sim) ==
  \/ sim.state.isComplete
  \/ Len(ActivePack(sim.state).cards) = 0

QuickSimPass(sim, seed) ==
  IF QuickSimEnded(sim) THEN sim
  ELSE [PickCardRun(sim.state, 0, seed) EXCEPT !.warned = @ \/ sim.warned]

RECURSIVE QuickSimPasses(_, _, _)
\* n passes of the loop: the first half of them, and then the rest from the
\* loop state the first half ends in.
QuickSimPasses(sim, n, seed) ==
  IF n = 0 THEN sim
  ELSE IF n = 1 THEN QuickSimPass(sim, seed)
  ELSE CHOOSE result \in {QuickSimPasses(half, n - (n \div 2), seed) :
                            half \in {QuickSimPasses(sim, n \div 2, seed)}} : TRUE

\* The loop of handleQuickSim run from a state for at most MaxSimPasses
\* passes.
QuickSimLoop(state, seed) ==
  QuickSimPasses([warned |-> FALSE, state |-> state], MaxSimPasses, seed)

\* Quick Sim is explored from a draft without picks and from the last
\* MaxSimPicks turns of a draft.
QuickSimExplored(state) ==
  \/ Len(state.picks) = 0
  \/ Len(state.picks) >= NumRounds * TurnsPerRound - MaxSimPicks

\* Quick Sim is explored with the random tape of seed 0 for each of its picks.
HandleQuickSim ==
  /\ ControlsShown(draftState)
  /\ QuickSimExplored(draftState)
  /\ \E sim \in {QuickSimLoop(draftState, 0)} :
       /\ QuickSimEnded(sim)
       /\ draftState' = sim.state
       /\ toast' = "Quick sim complete!"
       /\ warned' = sim.warned
       /\ lastCall' = <<"handleQuickSim">>
       /\ UNCHANGED <<masterCards, heap, deckView, asyncVars>>
       /\ SaveEffect(TRUE)

Next ==
  \/ HandleNewDraft
  \/ HandlePickCard
  \/ HandleUndo
  \/ HandleResetRound
  \/ HandleResetDraft
  \/ HandleQuickSim

Spec == Init /\ [][Next]_vars

\* The app started over a pool of any size up to MaxPoolSize.
InitPools ==
  /\ masterCards \in AllPools
  /\ \E seed \in Seeds : draftState = createNewDraft(masterCards, seed)
  /\ toast = "New draft started!"
  /\ warned = FALSE
  /\ lastCall = <<"handleNewDraft">>
  /\ storage = "reliable"
  /\ savedDrafts = saveState(<<>>, draftState, TRUE)
  /\ saveFailed = FALSE
  /\ heap = <<>>
  /\ deckView = NoDeckCall
  /\ NoStorageCalls

\* Over these pools drafts are started, played and started again.
NextPools ==
  \/ HandleNewDraft
  \/ HandlePickCard
  \/ HandleResetDraft

SpecPools == InitPools /\ [][NextPools]_vars

RECURSIVE CardLists(_)
\* The lists of at most n cards out of the cards 1..MaxTallyCard.
CardLists(n) ==
  IF n = 0 THEN {<<>>}
  ELSE CardLists(n - 1) \cup
       {Append(cards, card) : cards \in CardLists(n - 1), card \in 1..MaxTallyCard}

\* The DraftState that handleImportDeck builds around a list of cards.
ImportedDraft(pool, cards) ==
  [masterCards |-> pool,
   rounds |-> <<>>,
   currentRound |-> 6,
   currentTurn |-> 13,
   picks |-> cards,
   log |-> <<>>,
   isComplete |-> TRUE,
   undoBuffer |-> Null]

\* A complete draft with any list of picks is brought up for its results.
\* What is brought up does not depend on the draft at hand, and it is
\* explored from the draft without picks only.
ImportDraft ==
  \E cards \in CardLists(MaxTallyPicks) :
    /\ draftState.picks = <<>>
    /\ draftState' = ImportedDraft(masterCards, cards)
    /\ toast' = ""
    /\ warned' = FALSE
    /\ lastCall' = <<"handleImportDeck">>
    /\ UNCHANGED <<masterCards, heap, deckView, asyncVars>>
    /\ SaveEffect(TRUE)

InitTally ==
  /\ masterCards = MasterPool(MaxTallyCard)
  /\ draftState = ImportedDraft(masterCards, <<>>)
  /\ toast = ""
  /\ warned = FALSE
  /\ lastCall = <<"handleImportDeck">>
  /\ storage = "reliable"
  /\ savedDrafts = saveState(<<>>, draftState, TRUE)
  /\ saveFailed = FALSE
  /\ heap = <<>>
  /\ deckView = NoDeckCall
  /\ NoStorageCalls

NextTally == ImportDraft

SpecTally == InitTally /\ [][NextTally]_vars

RECURSIVE FindCard(_, _, _, _)
\* masterCards.find from position i on: the first card of the given name,
\* and of the given colour when the entry has one; Undefined without one.
FindCard(pool, fullName, color, i) ==
  IF i > Len(pool) THEN Undefined
  ELSE IF /\ CardFullName(pool[i]) = fullName
          /\ (color = NoColor \/ CardColor(pool[i]) = color)
    THEN pool[i]
  ELSE FindCard(pool, fullName, color, i + 1)

\* The cards that the matching loop of handleImportDeck collects for the
\* parsed entries from entry j on: count times the card an entry matches,
\* and nothing for an entry that matches no card.
RECURSIVE MatchedCards(_, _, _)
MatchedCards(pool, parsed, j) ==
  IF j > Len(parsed) THEN <<>>
  ELSE LET matchedCard == FindCard(pool, parsed[j].fullName, parsed[j].color, 1)
       IN (IF matchedCard = Undefined THEN <<>>
           ELSE [i \in 1..parsed[j].count |-> matchedCard])
            \o MatchedCards(pool, parsed, j + 1)

\* The lines of the deck texts: every count and card in the old format with
\* its colour, in the new format and in the dash format without a colour, and
\* lines that name no card, no count or no colour of the six.
OldFormatLine(count, card) ==
  ToString(count) \o " - " \o CardFullName(card) \o " - " \o CardColor(card)
NewFormatLine(count, card) == ToString(count) \o " " \o CardFullName(card)
DashFormatLine(count, card) == ToString(count) \o " - " \o CardFullName(card)
StrayLines ==
  {"Card A", "0 - Card A - Amber", "2 - Card A - Gold", "2 Card Z", " "}
ImportLines ==
  {OldFormatLine(count, card) : count \in 1..MaxImportCount, card \in 1..MaxTallyCard}
    \cup {NewFormatLine(count, card) : count \in 1..MaxImportCount, card \in 1..MaxTallyCard}
    \cup {DashFormatLine(count, card) : count \in 1..MaxImportCount, card \in 1..MaxTallyCard}
    \cup StrayLines

\* The deck texts pasted: one line, or two lines.
DeckTexts ==
  ImportLines \cup {first \o "\n" \o second : first, second \in ImportLines}

\* The table holds no row but the current draft's.
NoNamedDraft == \A j \in 1..Len(savedDrafts) : savedDrafts[j].name = CurrentDraftName

\* handleImportDeck with one of the given texts pasted, the draft named
\* "Imported" at the prompt.  The import is explored into a table without a
\* named draft, and not right after another import of a text.
ImportDeck(texts) ==
  \E importText \in texts :
    LET parsed == parseDeckText(importText)
        cards == MatchedCards(masterCards, parsed, 1)
    IN /\ NoNamedDraft
       /\ lastCall[1] = "handleImportDeck" => Len(lastCall) = 1
       /\ lastCall' = <<"handleImportDeck", importText>>
       /\ warned' = FALSE
       /\ UNCHANGED <<masterCards, draftState, storage, heap, deckView, asyncVars>>
       /\ IF masterCards = <<>>
            THEN /\ toast' = "Card data not loaded. Please wait for cards to load."
                 /\ UNCHANGED <<savedDrafts, saveFailed>>
          ELSE IF trim(importText) = ""
            THEN /\ toast' = "Please paste deck text"
                 /\ UNCHANGED <<savedDrafts, saveFailed>>
          ELSE IF parsed = <<>>
            THEN /\ toast' = "No valid cards found in the text."
                 /\ UNCHANGED <<savedDrafts, saveFailed>>
          ELSE IF cards = <<>>
            THEN /\ toast' = "No cards matched."
                 /\ UNCHANGED <<savedDrafts, saveFailed>>
          ELSE \E succeeded \in StorageOutcomes :
                 /\ saveFailed' = ~succeeded
                 /\ IF succeeded
                      THEN /\ savedDrafts' = saveDraft(savedDrafts, "Imported",
                                                       ImportedDraft(masterCards, cards))
                           /\ toast' = "Draft imported successfully!"
                      ELSE /\ savedDrafts' = savedDrafts
                           /\ toast' = "Failed to import draft"

HandleImportDeck == ImportDeck(DeckTexts)

\* handleSaveDraft of the results table, the draft named "Saved" at the
\* prompt; explored into a table without a draft of that name.
HandleSaveDraft ==
  \E succeeded \in StorageOutcomes :
    /\ draftState.isComplete
    /\ \A j \in 1..Len(savedDrafts) : savedDrafts[j].name # "Saved"
    /\ savedDrafts' = IF succeeded THEN saveDraft(savedDrafts, "Saved", draftState)
                                   ELSE savedDrafts
    /\ saveFailed' = ~succeeded
    /\ toast' = IF succeeded THEN "Draft saved successfully!" ELSE "Failed to save draft"
    /\ warned' = FALSE
    /\ lastCall' = <<"handleSaveDraft">>
    /\ UNCHANGED <<masterCards, draftState, storage, heap, deckView, asyncVars>>

\* onNewDraft of the results table: clearState, then handleNewDraft.
HandleNewDraftFromResults ==
  \E seed \in Seeds, cleared \in StorageOutcomes :
    /\ draftState.isComplete
    /\ ResetSeedExplored(draftState, seed)
    /\ draftState' = createNewDraft(masterCards, seed)
    /\ toast' = "New draft started!"
    /\ warned' = FALSE
    /\ lastCall' = <<"onNewDraft">>
    /\ UNCHANGED <<masterCards, heap, deckView, asyncVars>>
    /\ SaveEffectAfter(clearState(savedDrafts, cleared), ~cleared)

\* The import of a one-line deck text in the new format.
HandleImportDeckLine == ImportDeck({NewFormatLine(1, 1)})

\* The page is loaded again.  loadSavedDraft takes the latest draft from
\* storage, and the draft is enriched from the card file and becomes the
\* draft state; where there is none, or enriching throws, the app is left
\* without a draft and New Draft, the one control it then offers, is
\* clicked.  The draft state set is saved by the effect.
MountApp ==
  \E loaded \in StorageOutcomes, seed \in Seeds, shift \in FlagShifts :
    LET saved == loadState(savedDrafts, loaded)
        resumed == saved # Null /\ ~EnrichThrows(saved[1])
    IN /\ IF resumed
            THEN /\ seed = 0
                 /\ draftState' = WithCardIds(enrichDraftStateWithBaseCard(
                                     WithCardObjects(saved[1], shift), shift))
                 /\ toast' = ""
                 /\ lastCall' = <<"mount", "resumed">>
            ELSE /\ shift = 0
                 /\ draftState' = createNewDraft(masterCards, seed)
                 /\ toast' = "New draft started!"
                 /\ lastCall' = <<"mount", "handleNewDraft">>
       /\ warned' = FALSE
       /\ UNCHANGED <<masterCards, heap, deckView, asyncVars>>
       /\ SaveEffectAfter(savedDrafts, ~loaded)

\* A draft is played up to MaxStorePicks picks, each of the first card
\* offered and on the tape of seed 0.
StorePickCard ==
  /\ Len(draftState.picks) < MaxStorePicks
  /\ ValidCardIndex(draftState, 0)
  /\ PickCardCall(0, 0)

\* The app, with the large card pool, over a database whose calls can fail.
InitStore ==
  /\ masterCards = MasterPool(LargePoolSize)
  /\ \E seed \in Seeds : draftState = createNewDraft(masterCards, seed)
  /\ toast = "New draft started!"
  /\ warned = FALSE
  /\ lastCall = <<"handleNewDraft">>
  /\ storage = "unreliable"
  /\ \E succeeded \in StorageOutcomes :
       /\ savedDrafts = saveState(<<>>, draftState, succeeded)
       /\ saveFailed = ~succeeded
  /\ heap = <<>>
  /\ deckView = NoDeckCall
  /\ NoStorageCalls

NextStore ==
  \/ HandleNewDraft
  \/ StorePickCard
  \/ HandleUndo
  \/ HandleResetRound
  \/ HandleResetDraft
  \/ HandleSaveDraft
  \/ HandleNewDraftFromResults
  \/ HandleImportDeckLine
  \/ MountApp

SpecStore == InitStore /\ [][NextStore]_vars

\* ------------------------------------------- the draft functions on objects
\* A caller of pickCard, undoLastPick and resetRound holds DraftState
\* objects: heap[ref] is the object of the reference ref, as it is now.
\* deepClone (JSON.parse) makes an object that shares nothing with the one
\* it was made from; the functions write to the clone they make and return
\* it, which puts a new object on the heap.
\* Mutant of pickCardOnHeap: the state passed in is written to and returned.
pickCardOnHeap_InPlace(objects, ref, cardIndex, seed) ==
  [objects EXCEPT ![ref] = pickCard(objects[ref], cardIndex, seed)]

pickCardOnHeap(objects, ref, cardIndex, seed) ==
  Append(objects, pickCard(objects[ref], cardIndex, seed))

\* undoLastPick returns null without an undo buffer, and a clone of the
\* buffer otherwise.
undoLastPickOnHeap(objects, ref) ==
  IF undoLastPick(objects[ref]) = Null THEN objects
  ELSE Append(objects, undoLastPick(objects[ref])[1])

resetRoundOnHeap(objects, ref, seed) ==
  Append(objects, resetRound(objects[ref], seed))

HeapFrame ==
  UNCHANGED <<masterCards, draftState, toast, warned, savedDrafts, storage, saveFailed,
              deckView, asyncVars>>

\* The caller calls pickCard on any object it holds, for a card offered.
HeapPickCard ==
  \E ref \in 1..Len(heap), cardIndex \in 0..MaxCardIndex, seed \in Seeds :
    /\ Len(heap) < MaxHeapObjects
    /\ ValidCardIndex(heap[ref], cardIndex)
    /\ InputsExplored(heap[ref], cardIndex, seed)
    /\ heap' = pickCardOnHeap(heap, ref, cardIndex, seed)
    /\ lastCall' = <<"pickCard", ref>>
    /\ HeapFrame

HeapUndoLastPick ==
  \E ref \in 1..Len(heap) :
    /\ Len(heap) < MaxHeapObjects
    /\ heap' = undoLastPickOnHeap(heap, ref)
    /\ lastCall' = <<"undoLastPick", ref>>
    /\ HeapFrame

HeapResetRound ==
  \E ref \in 1..Len(heap), seed \in Seeds :
    /\ Len(heap) < MaxHeapObjects
    /\ ResetSeedExplored(heap[ref], seed)
    /\ heap' = resetRoundOnHeap(heap, ref, seed)
    /\ lastCall' = <<"resetRound", ref>>
    /\ HeapFrame

\* The caller holds the draft the app has started.
InitHeap ==
  /\ masterCards \in MasterPools
  /\ \E seed \in Seeds : draftState = createNewDraft(masterCards, seed)
  /\ toast = "New draft started!"
  /\ warned = FALSE
  /\ lastCall = <<"createNewDraft">>
  /\ storage = "reliable"
  /\ savedDrafts = saveState(<<>>, draftState, TRUE)
  /\ saveFailed = FALSE
  /\ heap = <<draftState>>
  /\ deckView = NoDeckCall
  /\ NoStorageCalls

NextHeap ==
  \/ HeapPickCard
  \/ HeapUndoLastPick
  \/ HeapResetRound

SpecHeap == InitHeap /\ [][NextHeap]_vars

NextImport == HandleImportDeck

SpecImport == InitTally /\ [][NextImport]_vars

\* --------------------------------------------------- calls of the deck functions
RECURSIVE DeckLists(_)
\* The decks of at most n cards of the catalogue.
DeckLists(n) ==
  IF n = 0 THEN {<<>>}
  ELSE DeckLists(n - 1) \cup
       {Append(cards, DeckCatalogue[i]) :
          cards \in DeckLists(n - 1), i \in 1..Len(DeckCatalogue)}

\* The filters the calls are made with: every dimension off or on, the cost
\* filter also with the cost that matchesFilters gives a card without one.
FilterColors == {<<>>, <<"Ruby">>}
FilterCosts == {<<>>, <<2>>, <<-1, 1>>}
FilterTypes == {<<>>, <<"Character">>, <<"item", "Other">>}
FilterChoices ==
  {CardFilters(colors, costs, types, evasiveOnly) :
     colors \in FilterColors, costs \in FilterCosts, types \in FilterTypes,
     evasiveOnly \in BOOLEAN}
DisplayFilters ==
  {CardFilters(<<"Ruby">>, <<>>, <<>>, FALSE), CardFilters(<<>>, <<>>, <<>>, TRUE)}

DeckFrame ==
  UNCHANGED <<masterCards, draftState, toast, warned, lastCall, savedDrafts, storage,
              saveFailed, heap, asyncVars>>

\* A call does not depend on the calls made before it, and the calls are
\* explored from the deck that no function has been called on.
CallFilterCards ==
  \E filters \in FilterChoices :
    /\ deckView.call = ""
    /\ deckView' = [deckView EXCEPT !.call = "filterCards",
                                    !.filters = filters,
                                    !.filteredCards = filterCards(deckView.cards, filters)]
    /\ DeckFrame

CallGroupCardsByType ==
  \E sortOption \in SortOptions :
    /\ deckView.call = ""
    /\ deckView' = [deckView EXCEPT !.call = "groupCardsByType",
                                    !.sortOption = sortOption,
                                    !.groups = groupCardsByType(deckView.cards, sortOption)]
    /\ DeckFrame

CallBuildDisplayGroups ==
  \E filters \in DisplayFilters, sortOption \in SortOptions :
    /\ deckView.call = ""
    /\ \E display \in {buildDisplayGroups(deckView.cards, filters, sortOption)} :
         deckView' = [deckView EXCEPT !.call = "buildDisplayGroups",
                                      !.filters = filters,
                                      !.sortOption = sortOption,
                                      !.filteredCards = display.filteredCards,
                                      !.groups = display.groups]
    /\ DeckFrame

\* The deck of a saved draft, before any call.
InitDeck ==
  /\ masterCards = MasterPool(MaxTallyCard)
  /\ draftState = ImportedDraft(masterCards, <<>>)
  /\ toast = ""
  /\ warned = FALSE
  /\ lastCall = <<"handleImportDeck">>
  /\ storage = "reliable"
  /\ savedDrafts = saveState(<<>>, draftState, TRUE)
  /\ saveFailed = FALSE
  /\ heap = <<>>
  /\ \E cards \in DeckLists(MaxDeckCards) : deckView = [NoDeckCall EXCEPT !.cards = cards]
  /\ NoStorageCalls

NextDeck == CallFilterCards \/ CallGroupCardsByType \/ CallBuildDisplayGroups

SpecDeck == InitDeck /\ [][NextDeck]_vars

\* ------------------------------------------- the draft functions called directly
\* undoLastPick(state) on any state, complete ones included; on null the
\* caller keeps its state.
UndoLastPickCall ==
  LET newState == undoLastPick(draftState)
  IN /\ draftState' = IF newState # Null THEN newState[1] ELSE draftState
     /\ toast' = ""
     /\ warned' = FALSE
     /\ lastCall' = <<"undoLastPick">>
     /\ UNCHANGED <<masterCards, heap, deckView, asyncVars>>
     /\ SaveEffect(newState # Null)

\* resetRound(state) on any state, complete ones included; explored as the
\* Reset Round button is.
ResetRoundCall ==
  \E seed \in Seeds :
    /\ UndoDepth(draftState) = Len(draftState.picks)
    /\ ResetSeedExplored(draftState, seed)
    /\ draftState' = resetRound(draftState, seed)
    /\ toast' = ""
    /\ warned' = FALSE
    /\ lastCall' = <<"resetRound">>
    /\ UNCHANGED <<masterCards, heap, deckView, asyncVars>>
    /\ SaveEffect(TRUE)

\* Any sequence of initialize, valid pick, undo, resetRound and resetDraft.
NextCalls ==
  \/ HandleNewDraft
  \/ HandlePickCard
  \/ UndoLastPickCall
  \/ ResetRoundCall
  \/ HandleResetDraft

SpecCalls == Init /\ [][NextCalls]_vars

NextApi ==
  \/ HandleNewDraft
  \/ PickCardAnyIndex
  \/ HandleUndo
  \/ HandleResetDraft

SpecApi == Init /\ [][NextApi]_vars

\* ------------------------------------------------------------------- claims
\* The packs of the round a state is in, and those of the same round in the
\* state a pick leads to (a pick at turn 12 appends the next round after it).
CurrentPacks(state) == state.rounds[Len(state.rounds)].packs
PacksAfterPick == draftState'.rounds[Len(draftState.rounds)].packs
PickStep == lastCall'[1] = "handlePickCard"
LargePool == Len(masterCards) >= PackSize
AllPacksHold(packs, n) == \A p \in 1..Len(packs) : Len(packs[p].cards) = n

\* C1: a pick on an in-progress state with an index that is not a valid index
\* of the active pack (negative, too large, or the pack is empty) changes
\* nothing of the draft state.
C1_InvalidPickLeavesState ==
  [][(PickStep /\ ~draftState.isComplete
        /\ lastCall'[2] \notin OfferedIndices(draftState))
       => draftState' = draftState]_vars

\* C2: a pick on a complete state leaves the state untouched, whatever the
\* index.
C2_PickOnCompleteLeavesState ==
  [][(PickStep /\ draftState.isComplete) => draftState' = draftState]_vars

\* The fields of a DraftState other than its undo buffer.
DraftFields(state) == [state EXCEPT !.undoBuffer = Null]

\* C3: undoing right after a valid pick gives back, field for field (rounds
\* and their packs, currentRound, currentTurn, picks, log, isComplete, the
\* pool), the state the pick was made in.
C3_UndoRestoresPrePickState ==
  [][PickStep =>
       /\ undoLastPick(draftState') # Null
       /\ DraftFields(undoLastPick(draftState')[1]) = DraftFields(draftState)]_vars

\* C3 witness: the 12th pick of round 1 has been undone; the draft is back
\* at round 1, turn 12 and round 2 is gone.
C3_Witness ==
  /\ lastCall = <<"handleUndo">>
  /\ toast = "Undo successful"
  /\ draftState.currentRound = 1
  /\ draftState.currentTurn = TurnsPerRound
  /\ Len(draftState.picks) = TurnsPerRound - 1
  /\ Len(draftState.rounds) = 1

\* C4: the snapshot held in the undo buffer carries no undo buffer itself, so
\* the state an undo returns cannot be undone again.
C4_SingleSnapshot ==
  draftState.undoBuffer # Null =>
    BufferedState(draftState.undoBuffer).undoBuffer = Null

\* C5: undo on a state without undo buffer returns null, and the handler
\* leaves the draft state as it was and reports that nothing was undone.
C5_UndoWithoutBuffer ==
  [][(lastCall'[1] = "handleUndo" /\ draftState.undoBuffer = Null)
       => /\ undoLastPick(draftState) = Null
          /\ draftState' = draftState
          /\ toast' = "Nothing to undo"]_vars

\* C5 witness: an undo was refused on the state a round reset left (round 2
\* or later, earlier picks kept, no undo buffer).
C5_Witness ==
  /\ lastCall = <<"handleUndo">>
  /\ toast = "Nothing to undo"
  /\ draftState.undoBuffer = Null
  /\ draftState.currentRound >= 2
  /\ Len(draftState.picks) > 0

\* C6: over a pool of at least 12 cards every round starts with 6 packs of
\* 12 cards, every round that reached its boundary has its 6 packs at 0
\* cards, and the integrity warning is never written.
C6_RoundsStartFullEndEmpty ==
  LargePool =>
    /\ ~warned
    /\ \A r \in 1..Len(draftState.rounds) :
         /\ Len(draftState.rounds[r].packs) = NumPacks
         /\ (r < Len(draftState.rounds) \/ draftState.currentTurn > TurnsPerRound)
              => AllPacksHold(draftState.rounds[r].packs, 0)
    /\ draftState.currentTurn = 1 => AllPacksHold(CurrentPacks(draftState), PackSize)

\* C6 witness: the 12th pick of round 2 was just made; rounds 1 and 2 are
\* empty and round 3 is there.
C6_Witness ==
  /\ LargePool
  /\ lastCall[1] = "handlePickCard"
  /\ draftState.currentRound = 3
  /\ draftState.currentTurn = 1
  /\ AllPacksHold(draftState.rounds[2].packs, 0)

\* C7: over a pool of at least 12 cards each of the 6 packs of the current
\* round holds 13 - currentTurn cards, and the active pack of a draft in
\* progress is not empty.
C7_PacksShrinkInStep ==
  LargePool =>
    /\ Len(CurrentPacks(draftState)) = NumPacks
    /\ AllPacksHold(CurrentPacks(draftState), TurnsPerRound + 1 - draftState.currentTurn)
    /\ ~draftState.isComplete => Len(ActivePack(draftState).cards) > 0

\* C7 witness: six picks into a round, every pack holds 6 cards.
C7_Witness ==
  /\ LargePool
  /\ lastCall[1] = "handlePickCard"
  /\ draftState.currentTurn = 7
  /\ AllPacksHold(CurrentPacks(draftState), 6)

\* C8: getActivePackIndex(t) = (t - 1) mod 6, so turns t and t + 6 share the
\* pack t - 1, every pack index is the pick source on exactly 2 of the 12
\* turns, and a log entry of turn t records that index.
C8_ActivePackRotation ==
  /\ \A t \in 1..6 : getActivePackIndex(t) = t - 1 /\ getActivePackIndex(t + 6) = t - 1
  /\ \A p \in 0..(NumPacks - 1) :
       Cardinality({t \in 1..TurnsPerRound : getActivePackIndex(t) = p}) = 2
  /\ \A j \in 1..Len(draftState.log) :
       draftState.log[j].packIndex = (draftState.log[j].turn - 1) % 6

\* C8 witness: a pick of the second half of a round (turn 8, pack index 1)
\* is in the log.
C8_Witness ==
  \E j \in 1..Len(draftState.log) :
    draftState.log[j].turn = 8 /\ draftState.log[j].packIndex = 1

\* C9: the removedCounts logged for a pick is the number of non-active packs
\* that were non-empty before it; each of those lost exactly one card and the
\* empty ones were skipped and stayed empty; a valid pick over a pool of at
\* least 12 cards, all packs holding 13 - currentTurn cards, logs 5.
C9_RemovedCounts ==
  [][PickStep =>
       LET active == getActivePackIndex(draftState.currentTurn)
           before == CurrentPacks(draftState)
           after == PacksAfterPick
           others == (0..(Len(before) - 1)) \ {active}
           entry == draftState'.log[Len(draftState'.log)]
       IN /\ entry.removedCounts =
               Cardinality({p \in others : Len(before[p + 1].cards) > 0})
          /\ \A p \in others :
               Len(after[p + 1].cards) =
                 IF Len(before[p + 1].cards) > 0
                   THEN Len(before[p + 1].cards) - 1 ELSE 0
          /\ ( /\ LargePool
               /\ ValidCardIndex(draftState, lastCall'[2])
               /\ AllPacksHold(before, TurnsPerRound + 1 - draftState.currentTurn) )
               => entry.removedCounts = 5]_vars

\* C9 witness: the first pick of the draft logged 5 removals, and the last
\* pick, made when every other pack was empty, logged none.
C9_Witness ==
  /\ lastCall[1] = "handlePickCard"
  /\ Len(draftState.log) >= 2
  /\ draftState.log[1].removedCounts = 5
  /\ draftState.log[Len(draftState.log)].removedCounts = 0
  /\ AllPacksHold(CurrentPacks(draftState), 0)

\* C10: a valid pick of index i appends the i-th card of the active pack to
\* picks, deletes that one position from the active pack keeping the order
\* of the rest, keeps the earlier picks and log entries as a prefix, and logs
\* the round, the turn, the active index and that card.
C10_PickMovesChosenCard ==
  [][PickStep =>
       LET i == lastCall'[2]
           active == getActivePackIndex(draftState.currentTurn)
           before == ActivePack(draftState).cards
           after == PacksAfterPick[active + 1].cards
           n == Len(draftState.log)
           entry == draftState'.log[n + 1]
       IN /\ draftState'.picks = Append(draftState.picks, before[i + 1])
          /\ after = [j \in 1..(Len(before) - 1) |->
                        IF j <= i THEN before[j] ELSE before[j + 1]]
          /\ Len(draftState'.log) = n + 1
          /\ SubSeq(draftState'.log, 1, n) = draftState.log
          /\ entry.round = draftState.currentRound
          /\ entry.turn = draftState.currentTurn
          /\ entry.packIndex = active
          /\ entry.picked = before[i + 1]]_vars

\* C10 witness: the second card of the active pack was picked and is the
\* last of the picks.
C10_Witness ==
  /\ lastCall = <<"handlePickCard", 1>>
  /\ draftState.undoBuffer # Null
  /\ draftState.picks[Len(draftState.picks)] =
       ActivePack(BufferedState(draftState.undoBuffer)).cards[2]

\* The cards of a sequence are taken from different positions of the pool.
DrawnFrom(cards, pool) ==
  /\ \A j \in 1..Len(cards) : \E q \in 1..Len(pool) : pool[q] = cards[j]
  /\ \A j, h \in 1..Len(cards) : j # h => cards[j] # cards[h]

\* A round as createRound leaves it: its number, turn 1, 6 untouched packs of
\* min(12, |pool|) cards of the pool.
FreshRound(round, roundNumber, pool) ==
  /\ round.roundNumber = roundNumber
  /\ round.turn = 1
  /\ Len(round.packs) = NumPacks
  /\ \A p \in 1..NumPacks :
       /\ round.packs[p].id = <<roundNumber, p>>
       /\ round.packs[p].removedLog = <<>>
       /\ Len(round.packs[p].cards) = Min(PackSize, Len(pool))
       /\ DrawnFrom(round.packs[p].cards, pool)

\* C11: a valid pick at turn t < 12 leads to turn t + 1 in the same round
\* with as many rounds as before; a valid pick at turn 12 of round r < 6 leads
\* to round r + 1, turn 1, with exactly one round appended, freshly drawn, and
\* the draft not complete; a valid pick at turn 12 of round 6 completes the
\* draft and appends no round.
C11_RoundTransition ==
  [][PickStep =>
       LET t == draftState.currentTurn
           r == draftState.currentRound
           n == Len(draftState.rounds)
       IN /\ t < TurnsPerRound =>
               /\ draftState'.currentTurn = t + 1
               /\ draftState'.currentRound = r
               /\ Len(draftState'.rounds) = n
               /\ ~draftState'.isComplete
          /\ (t = TurnsPerRound /\ r < NumRounds) =>
               /\ draftState'.currentRound = r + 1
               /\ draftState'.currentTurn = 1
               /\ Len(draftState'.rounds) = n + 1
               /\ FreshRound(draftState'.rounds[n + 1], r + 1, masterCards)
               /\ ~draftState'.isComplete
          /\ (t = TurnsPerRound /\ r = NumRounds) =>
               /\ draftState'.isComplete
               /\ draftState'.currentRound = NumRounds
               /\ Len(draftState'.rounds) = n
               /\ n = NumRounds]_vars

\* C11 witness: the 12th pick of round 1 was just made; round 2 is appended,
\* freshly drawn, at turn 1, and the draft is not complete.
C11_Witness ==
  /\ lastCall[1] = "handlePickCard"
  /\ draftState.currentRound = 2
  /\ draftState.currentTurn = 1
  /\ Len(draftState.rounds) = 2
  /\ FreshRound(draftState.rounds[2], 2, masterCards)
  /\ ~draftState.isComplete

\* C12: over a pool of at least 12 cards every pick made is a card of the
\* pool, the draft has 12 * (currentRound - 1) + currentTurn - 1 picks, it is
\* complete exactly when it has 72 picks, and then its 6th round has every
\* pack at 0 cards; the Quick Sim loop started from a state ends, and it ends
\* with the draft complete at 72 picks.
C12_SeventyTwoPicks ==
  LargePool =>
    /\ \A j \in 1..Len(draftState.picks) :
         \E q \in 1..Len(masterCards) : masterCards[q] = draftState.picks[j]
    /\ Len(draftState.picks) =
         TurnsPerRound * (draftState.currentRound - 1) + draftState.currentTurn - 1
    /\ draftState.isComplete <=> Len(draftState.picks) = NumRounds * TurnsPerRound
    /\ draftState.isComplete =>
         /\ Len(draftState.rounds) = NumRounds
         /\ AllPacksHold(CurrentPacks(draftState), 0)
    /\ (ControlsShown(draftState) /\ QuickSimExplored(draftState)) =>
         \A sim \in {QuickSimLoop(draftState, 0)} :
           /\ QuickSimEnded(sim)
           /\ sim.state.isComplete
           /\ Len(sim.state.picks) = NumRounds * TurnsPerRound
    /\ lastCall[1] = "handleQuickSim" => draftState.isComplete

\* C12 witness: Quick Sim was run on a draft without picks and made the 72
\* picks in a row; the draft is complete and its last round is empty.
C12_Witness ==
  /\ LargePool
  /\ lastCall = <<"handleQuickSim">>
  /\ draftState.isComplete
  /\ Len(draftState.picks) = NumRounds * TurnsPerRound
  /\ UndoDepth(draftState) = NumRounds * TurnsPerRound
  /\ AllPacksHold(CurrentPacks(draftState), 0)

ResetRoundStep == lastCall'[1] = "handleResetRound"

\* C13: resetRound at round r, turn t drops the t - 1 picks and log entries
\* of round r and keeps the first 12 * (r - 1) of each, sets the turn to 1,
\* keeps the round number and the number of rounds, replaces the current
\* round by a freshly drawn one, and clears the undo buffer, so that an undo
\* right after it returns null; with no pick made in round r, picks and log
\* stay as they are.
C13_ResetRound ==
  [][ResetRoundStep =>
       LET r == draftState.currentRound
           t == draftState.currentTurn
           kept == TurnsPerRound * (r - 1)
       IN /\ Len(draftState.picks) - Len(draftState'.picks) = t - 1
          /\ Len(draftState.log) - Len(draftState'.log) = t - 1
          /\ draftState'.picks = SubSeq(draftState.picks, 1, kept)
          /\ draftState'.log = SubSeq(draftState.log, 1, kept)
          /\ \A j \in 1..Len(draftState'.log) : draftState'.log[j].round < r
          /\ draftState'.currentTurn = 1
          /\ draftState'.currentRound = r
          /\ Len(draftState'.rounds) = Len(draftState.rounds)
          /\ FreshRound(draftState'.rounds[Len(draftState'.rounds)], r, masterCards)
          /\ draftState'.undoBuffer = Null
          /\ undoLastPick(draftState') = Null
          /\ t = 1 => /\ draftState'.picks = draftState.picks
                      /\ draftState'.log = draftState.log]_vars

\* C13 witness: round 2 was just reset; the 12 picks of round 1 are kept,
\* round 2 is fresh, at turn 1, and there is nothing to undo.
C13_Witness ==
  /\ lastCall = <<"handleResetRound">>
  /\ draftState.currentRound = 2
  /\ draftState.currentTurn = 1
  /\ Len(draftState.picks) = TurnsPerRound
  /\ Len(draftState.log) = TurnsPerRound
  /\ draftState.undoBuffer = Null
  /\ AllPacksHold(CurrentPacks(draftState), PackSize)

\* C14: a pick, a Quick Sim and a round reset leave every round before the
\* current one (its number, its packs and their cards) as it was, and a round
\* reset also leaves the round number and every pick and log entry of the
\* earlier rounds as they were.
C14_EarlierRoundsUnchanged ==
  [][(PickStep \/ ResetRoundStep \/ lastCall'[1] = "handleQuickSim") =>
       /\ Len(draftState'.rounds) >= Len(draftState.rounds)
       /\ \A j \in 1..(Len(draftState.rounds) - 1) :
            draftState'.rounds[j] = draftState.rounds[j]
       /\ ResetRoundStep =>
            /\ draftState'.currentRound = draftState.currentRound
            /\ \A j \in 1..Len(draftState.log) :
                 draftState.log[j].round < draftState.currentRound =>
                   /\ j <= Len(draftState'.log)
                   /\ draftState'.log[j] = draftState.log[j]
                   /\ draftState'.picks[j] = draftState.picks[j]]_vars

\* C14 witness: round 3 was just reset; rounds 1 and 2 are still there with
\* their packs empty, and so are their 24 picks.
C14_Witness ==
  /\ lastCall = <<"handleResetRound">>
  /\ draftState.currentRound = 3
  /\ Len(draftState.rounds) = 3
  /\ AllPacksHold(draftState.rounds[1].packs, 0)
  /\ AllPacksHold(draftState.rounds[2].packs, 0)
  /\ Len(draftState.picks) = 2 * TurnsPerRound
  /\ draftState.log[2 * TurnsPerRound].round = 2

\* A draft state as initialize leaves it over a pool.
InitialDraft(state, pool) ==
  /\ state.masterCards = pool
  /\ state.currentRound = 1
  /\ state.currentTurn = 1
  /\ state.picks = <<>>
  /\ state.log = <<>>
  /\ ~state.isComplete
  /\ state.undoBuffer = Null
  /\ Len(state.rounds) = 1
  /\ FreshRound(state.rounds[1], 1, pool)

\* C15: resetDraft(pool) returns what createNewDraft(pool) returns, whatever
\* the draft state is (in progress or complete, with or without undo buffer):
\* round 1, turn 1, no picks, no log, not complete, no undo buffer and one
\* round of 6 freshly drawn packs over the pool; the Reset Draft handler
\* leaves the draft in such a state.
C15_ResetDraftIsInitialize ==
  /\ \A seed \in Seeds : \A reset \in {resetDraft(masterCards, seed)} :
       /\ reset = createNewDraft(masterCards, seed)
       /\ InitialDraft(reset, masterCards)
  /\ lastCall[1] = "handleResetDraft" =>
       /\ InitialDraft(draftState, masterCards)
       /\ \E seed \in Seeds : draftState = createNewDraft(masterCards, seed)

\* C15 witness: Reset Draft was just run over the large pool, and the draft
\* is as initialize leaves it.
C15_Witness ==
  /\ lastCall = <<"handleResetDraft">>
  /\ toast = "Draft reset"
  /\ InitialDraft(draftState, masterCards)
  /\ LargePool

\* C16: a pack drawn from the pool holds min(12, |pool|) cards, each a card
\* of the pool and no pool position twice; from a pool of fewer than 12 cards
\* it holds every card of the pool exactly once; the 6 packs of a round are
\* each drawn from the whole pool, so that a pool of exactly 12 cards gives 6
\* packs of 12; the pool is left as it is.
C16_PackIsSampleOfPool ==
  /\ draftState.masterCards = masterCards
  /\ \A seed \in Seeds :
       /\ \A pack \in {sampleWithoutReplacement(masterCards, PackSize, seed, 0).result} :
            /\ Len(pack) = Min(PackSize, Len(masterCards))
            /\ DrawnFrom(pack, masterCards)
            /\ Len(masterCards) < PackSize =>
                 \A q \in 1..Len(masterCards) :
                   Cardinality({j \in 1..Len(pack) : pack[j] = masterCards[q]}) = 1
       /\ \A round \in {createRound(1, masterCards, seed, 0)} :
            /\ FreshRound(round, 1, masterCards)
            /\ Len(masterCards) >= PackSize => AllPacksHold(round.packs, PackSize)

\* C16 witness: a draft was started over a pool of exactly 12 cards and each
\* of its 6 packs holds 12 cards.
C16_Witness ==
  /\ lastCall = <<"handleNewDraft">>
  /\ Len(masterCards) = PackSize
  /\ Len(CurrentPacks(draftState)) = NumPacks
  /\ AllPacksHold(CurrentPacks(draftState), PackSize)

\* The rarity rank of a card, and the tape positions a removal is tried at.
CardRank(card) == getRarityValue(CardRarity(card))
TapePositions == 0..(RandomDenominator - 1)

\* C17: the ranks are Common < Uncommon < Rare < Super Rare < Legendary <
\* Epic < Iconic < Enchanted < Special, and a missing or unknown rarity has
\* rank 0; for every non-empty pack the index the rarity branch chooses is an
\* index of the pack and the card there has a rank at least that of every
\* card of the pack, so that it has rank 0 only when every card has rank 0;
\* the removal policy chooses that index whenever it takes the rarity branch.
C17_RarityBranchRemovesRarest ==
  /\ 0 < getRarityValue("Common")
  /\ getRarityValue("Common") < getRarityValue("Uncommon")
  /\ getRarityValue("Uncommon") < getRarityValue("Rare")
  /\ getRarityValue("Rare") < getRarityValue("Super Rare")
  /\ getRarityValue("Super Rare") < getRarityValue("Legendary")
  /\ getRarityValue("Legendary") < getRarityValue("Epic")
  /\ getRarityValue("Epic") < getRarityValue("Iconic")
  /\ getRarityValue("Iconic") < getRarityValue("Enchanted")
  /\ getRarityValue("Enchanted") < getRarityValue("Special")
  /\ getRarityValue("") = 0
  /\ getRarityValue("Promo") = 0
  /\ \A p \in 1..Len(CurrentPacks(draftState)) :
       LET cards == CurrentPacks(draftState)[p].cards
       IN Len(cards) > 0 =>
            \A seed \in Seeds, k \in TapePositions :
              \A index \in {findRarestCardIndex(cards, seed, k).index} :
                /\ index \in 0..(Len(cards) - 1)
                /\ \A j \in 1..Len(cards) : CardRank(cards[index + 1]) >= CardRank(cards[j])
                /\ CardRank(cards[index + 1]) = 0 =>
                     \A j \in 1..Len(cards) : CardRank(cards[j]) = 0
                /\ ~RandomBelowHalf(seed, k) =>
                     RemovalChoice(cards, seed, k).index =
                       findRarestCardIndex(cards, seed, k + 1).index

\* C17 witness: after a pick, one pack holds nothing but cards of rank 0,
\* and another holds two cards of its highest rank, which is not 0, and a
\* card of a lower rank.
C17_Witness ==
  /\ lastCall[1] = "handlePickCard"
  /\ \E p \in 1..Len(CurrentPacks(draftState)) :
       LET cards == CurrentPacks(draftState)[p].cards
       IN /\ Len(cards) > 0
          /\ \A j \in 1..Len(cards) : CardRank(cards[j]) = 0
  /\ \E p \in 1..Len(CurrentPacks(draftState)) :
       LET cards == CurrentPacks(draftState)[p].cards
       IN /\ Len(cards) > 0
          /\ Len(RarestIndices(cards)) >= 2
          /\ Len(RarestIndices(cards)) < Len(cards)
          /\ CardRank(cards[RarestIndices(cards)[1] + 1]) > 0

\* The tally and the copy text of the picks of the draft.
Tally == getTally(draftState.picks)
CopyText == generateCopyTextWithoutColor(draftState.picks)

\* C18: the entries of the tally are in descending order of count, and
\* entries of equal count are in strictly ascending order of fullName, so
\* that no two neighbours of equal count have the same fullName.
C18_TallyTotalOrder ==
  \A j \in 1..(Len(Tally) - 1) :
    /\ Tally[j].count >= Tally[j + 1].count
    /\ Tally[j].count = Tally[j + 1].count =>
         /\ localeCompare(Tally[j].fullName, Tally[j + 1].fullName) < 0
         /\ Tally[j].fullName # Tally[j + 1].fullName

RECURSIVE SumOfCounts(_, _)
SumOfCounts(entries, j) ==
  IF j > Len(entries) THEN 0 ELSE entries[j].count + SumOfCounts(entries, j + 1)

\* The (fullName, color) pairs of the picks, and the picks that have a pair.
PickedPairs ==
  {<<CardFullName(draftState.picks[j]), CardColor(draftState.picks[j])>> :
     j \in 1..Len(draftState.picks)}
PicksWithPair(pair) ==
  {j \in 1..Len(draftState.picks) :
     <<CardFullName(draftState.picks[j]), CardColor(draftState.picks[j])>> = pair}

\* C19: the tally has exactly one entry for every (fullName, color) pair
\* that occurs in the picks and no other entry, the count of an entry is the
\* number of picks with its pair, and the counts add up to the number of
\* picks.
C19_TallyGroupsByNameAndColor ==
  /\ Len(Tally) = Cardinality(PickedPairs)
  /\ \A pair \in PickedPairs :
       \E j \in 1..Len(Tally) :
         /\ <<Tally[j].fullName, Tally[j].color>> = pair
         /\ Tally[j].count = Cardinality(PicksWithPair(pair))
         /\ \A h \in 1..Len(Tally) :
              <<Tally[h].fullName, Tally[h].color>> = pair => h = j
  /\ \A j \in 1..Len(Tally) : <<Tally[j].fullName, Tally[j].color>> \in PickedPairs
  /\ SumOfCounts(Tally, 1) = Len(draftState.picks)

\* C19 witness: the picks hold Card A twice under one colour and once under
\* the other, and the tally keeps the two apart.
C19_Witness ==
  /\ Len(draftState.picks) = 3
  /\ Len(Tally) = 2
  /\ Tally[1].fullName = Tally[2].fullName
  /\ Tally[1].color # Tally[2].color
  /\ Tally[1].count = 2
  /\ Tally[2].count = 1

RECURSIVE SplitLines(_, _, _)
\* The lines of a text from character i on, current being the part of the
\* line read so far: text.split('\n').
SplitLines(text, i, current) ==
  IF i > Len(text) THEN <<current>>
  ELSE IF SubSeq(text, i, i) = "\n"
    THEN <<current>> \o SplitLines(text, i + 1, "")
  ELSE SplitLines(text, i + 1, current \o SubSeq(text, i, i))

\* C20: the copy text of an empty pick list is the empty text; otherwise its
\* lines, split at the newlines, are as many as the tally has entries, the
\* j-th being the count of the j-th entry, one space and its fullName, with
\* no line left over at the end; two picks of Card A and one of Card B give
\* "2 Card A\n1 Card B".
C20_CopyTextFormat ==
  /\ draftState.picks = <<>> => CopyText = ""
  /\ draftState.picks # <<>> =>
       \A lines \in {SplitLines(CopyText, 1, "")} :
         /\ Len(lines) = Len(Tally)
         /\ \A j \in 1..Len(lines) :
              lines[j] = ToString(Tally[j].count) \o " " \o Tally[j].fullName
  /\ draftState.picks = <<1, 1, 3>> => CopyText = "2 Card A\n1 Card B"

\* C20 witness: Card A (Amber) was picked twice and Card B (Ruby) once, and
\* the copy text is "2 Card A\n1 Card B".
C20_Witness ==
  /\ draftState.picks = <<1, 1, 3>>
  /\ CardFullName(1) = "Card A" /\ CardColor(1) = "Amber"
  /\ CardFullName(3) = "Card B" /\ CardColor(3) = "Ruby"
  /\ CopyText = "2 Card A\n1 Card B"

\* C21: the text "Copy All Lines" copies has one line per tally entry, the
\* j-th being the count of the j-th entry, " - ", its fullName, " - " and
\* its color, as in "3 - Gaston - Amber".
C21_CopyAllLinesWithColor ==
  draftState.picks # <<>> =>
    \A lines \in {SplitLines(CopyText, 1, "")} :
      /\ Len(lines) = Len(Tally)
      /\ \A j \in 1..Len(lines) :
           lines[j] = ToString(Tally[j].count) \o " - " \o Tally[j].fullName
                        \o " - " \o Tally[j].color

\* The entries parsed from the text of the last import.
ParsedImport == parseDeckText(lastCall[2])

\* C22: a line in the old format, the count of a card, " - ", its fullName,
\* " - " and its colour, is parsed into one entry of that count, that
\* fullName and that colour, and the draft that the import saves holds the
\* card of that name and colour that many times.
C22_OldFormatLineImported ==
  \A count \in 1..MaxImportCount, card \in 1..MaxTallyCard :
    lastCall = <<"handleImportDeck", OldFormatLine(count, card)>> =>
      /\ ParsedImport = <<ParsedEntry(count, CardFullName(card), CardColor(card))>>
      /\ savedDrafts[Len(savedDrafts)].name = "Imported"
      /\ savedDrafts[Len(savedDrafts)].draftState.picks =
           [j \in 1..count |-> FindCard(masterCards, CardFullName(card), CardColor(card), 1)]

PickResults ==
  {[cardIndex |-> cardIndex, state |-> pickCard(draftState, cardIndex, seed)] :
     cardIndex \in OfferedIndices(draftState) \cap (0..MaxCardIndex), seed \in Seeds}

\* C24: of two pick calls made on the same draft state, each returns a state
\* whose picks are the picks of that state followed by the one card it was
\* called for, and whose undo buffer holds that state; so the state of the
\* second call has one pick more than the state called on, not two, and the
\* card of the first call is not added by it.
C24_PicksOnSameSnapshot ==
  ~draftState.isComplete =>
    \A first \in PickResults, second \in PickResults :
      LET offered == ActivePack(draftState).cards
      IN /\ first.state.picks = Append(draftState.picks, offered[first.cardIndex + 1])
         /\ second.state.picks = Append(draftState.picks, offered[second.cardIndex + 1])
         /\ Len(second.state.picks) = Len(draftState.picks) + 1
         /\ DraftFields(BufferedState(first.state.undoBuffer)) = DraftFields(draftState)
         /\ DraftFields(BufferedState(second.state.undoBuffer)) = DraftFields(draftState)

\* C24 witness: after a pick, the first two cards offered differ, and the
\* states that the calls for them return hold one new pick each, the card
\* of the one call missing from the picks of the other.
C24_Witness ==
  /\ lastCall[1] = "handlePickCard"
  /\ ~draftState.isComplete
  /\ \E first \in PickResults, second \in PickResults :
       /\ first.cardIndex = 0
       /\ second.cardIndex = 1
       /\ first.state.picks[Len(first.state.picks)] #
            second.state.picks[Len(second.state.picks)]
       /\ Len(first.state.picks) = Len(draftState.picks) + 1
       /\ Len(second.state.picks) = Len(draftState.picks) + 1

\* C25: the picks are as many as the turns played, 12 for each round before
\* the current one and one for each turn of it before the current one, and
\* neither the picks nor the log hold more than 72 entries.
C25_PicksCountTurns ==
  /\ Len(draftState.picks) =
       TurnsPerRound * (draftState.currentRound - 1) + (draftState.currentTurn - 1)
  /\ Len(draftState.picks) <= NumRounds * TurnsPerRound
  /\ Len(draftState.log) <= NumRounds * TurnsPerRound

LoadedDraft == loadState(savedDrafts, TRUE)

\* C27: the store is one slot for the current draft.  After a handler whose
\* save went through, load() gives the draft state that was saved; whatever
\* was saved or imported under a name, load() gives no draft but one that
\* was passed to save(), i.e. the draft of the row named 'Current Draft';
\* and when a clear went through and no save after it, load() gives nothing.
C27_StoreIsSingleSlot ==
  /\ LoadedDraft # Null =>
       \E j \in 1..Len(savedDrafts) :
         /\ savedDrafts[j].name = CurrentDraftName
         /\ LoadedDraft[1] = savedDrafts[j].draftState
  /\ (\A j \in 1..Len(savedDrafts) : savedDrafts[j].name # CurrentDraftName) =>
       LoadedDraft = Null

\* The handlers that always set a new draft state, which the effect saves.
SavingHandlers ==
  {"handlePickCard", "handleResetRound", "handleResetDraft", "handleNewDraft",
   "onNewDraft", "mount"}

\* C28: the draft that a save which went through has left in storage is the
\* draft state that was saved; and every draft in storage, whatever baseCard
\* flags its cards were saved with and whatever the card file says of them,
\* is enriched without an error into a state with the same currentRound,
\* currentTurn, isComplete, rounds, packs, picks, log and undo buffer, card
\* for card, that differs in baseCard flags at most; enriching the enriched
\* state again gives the enriched state.
C28_ResumePreservesDraft ==
  /\ (lastCall[1] \in SavingHandlers /\ ~saveFailed) =>
       \E j \in 1..Len(savedDrafts) :
         /\ savedDrafts[j].name = CurrentDraftName
         /\ savedDrafts[j].draftState = draftState
  /\ \A j \in 1..Len(savedDrafts) :
       /\ ~EnrichThrows(savedDrafts[j].draftState)
       /\ \A savedShift \in FlagShifts, lookupShift \in FlagShifts :
            \A enriched \in {enrichDraftStateWithBaseCard(
                               WithCardObjects(savedDrafts[j].draftState, savedShift),
                               lookupShift)} :
              /\ WithCardIds(enriched) = savedDrafts[j].draftState
              /\ enrichDraftStateWithBaseCard(enriched, lookupShift) = enriched

\* C28 witness: the app was loaded again and resumed a draft of one pick
\* with its undo buffer, now the draft state; the card picked was saved
\* without a baseCard flag and is enriched to baseCard false under one card
\* file and left without a flag by none.
C28_Witness ==
  /\ lastCall = <<"mount", "resumed">>
  /\ ~saveFailed
  /\ Len(draftState.picks) = 1
  /\ draftState.undoBuffer # Null
  /\ \E savedShift \in FlagShifts, lookupShift \in FlagShifts :
       /\ WithCardObjects(draftState, savedShift).picks[1].baseCard = "absent"
       /\ enrichDraftStateWithBaseCard(WithCardObjects(draftState, savedShift),
                                       lookupShift).picks[1].baseCard = "false"
  /\ \A savedShift \in FlagShifts, lookupShift \in FlagShifts :
       enrichDraftStateWithBaseCard(WithCardObjects(draftState, savedShift),
                                    lookupShift).picks[1].baseCard # "absent"

\* A card passes the filters when every dimension that is switched on lets
\* it through; costListed says whether the cost filter lists the card's cost.
PassesFilters(card, filters, costListed) ==
  /\ filters.colors = <<>> \/ includes(filters.colors, card.color)
  /\ filters.costs = <<>> \/ costListed
  /\ filters.types = <<>> \/ includes(filters.types, resolveCardType(card))
  /\ \/ ~filters.evasiveOnly
     \/ \E k \in 1..Len(card.keywordAbilities) :
          toLowerCase(card.keywordAbilities[k]) = "evasive"

GroupedCards ==
  IF deckView.call = "buildDisplayGroups" THEN deckView.filteredCards ELSE deckView.cards

\* The group a card of the catalogue belongs in, by the type it carries.
GroupOfType(type) ==
  CASE type = "" -> "Other"
    [] type \in {"Character", "character"} -> "Character"
    [] type = " Action" -> "Action"
    [] type = "SONG" -> "Song"
    [] type = "item" -> "item"

Occurrences(cards, card) == Cardinality({i \in 1..Len(cards) : cards[i] = card})

\* Whether a group of the first type is to come before one of the second.
GroupBefore(first, second) ==
  LET rank(type) == CHOOSE r \in 1..Len(TYPE_ORDER) : TYPE_ORDER[r] = type
  IN IF includes(TYPE_ORDER, first)
       THEN includes(TYPE_ORDER, second) => rank(first) < rank(second)
       ELSE ~includes(TYPE_ORDER, second) /\ localeCompare(first, second) < 0

\* Whether the sort option allows card a to stand right before card b: by
\* cost (cards without a cost last when ascending, first when descending),
\* then by name; by name; or by colour, then cost, then name.
InSortOrder(sortOption, a, b) ==
  LET costBefore(x, y) ==
        x.cost.isNumber /\ (~y.cost.isNumber \/ x.cost.value < y.cost.value)
      sameCost == /\ a.cost.isNumber = b.cost.isNumber
                  /\ a.cost.isNumber => a.cost.value = b.cost.value
      nameNotAfter == localeCompare(a.fullName, b.fullName) <= 0
      byCostAscending == costBefore(a, b) \/ (sameCost /\ nameNotAfter)
  IN CASE sortOption \in {"default", "cost-asc"} -> byCostAscending
       [] sortOption = "cost-desc" -> costBefore(b, a) \/ (sameCost /\ nameNotAfter)
       [] sortOption = "name" -> nameNotAfter
       [] sortOption = "color" ->
            \/ localeCompare(a.color, b.color) < 0
            \/ a.color = b.color /\ byCostAscending

\* C30: groupCardsByType partitions the cards it is given (for
\* buildDisplayGroups, the filtered cards only): every card appears as often
\* as in the input in the group of its resolved type and in no other group,
\* no group is empty, the groups come in the order Character, Action, Song
\* and then the other types in ascending name order, and each group is
\* ordered by the sort option.
C30_GroupsPartitionByType ==
  deckView.call \in {"groupCardsByType", "buildDisplayGroups"} =>
    LET groups == deckView.groups
    IN /\ deckView.call = "buildDisplayGroups" =>
            deckView.filteredCards =
              SelectSeq(deckView.cards, LAMBDA card : matchesFilters(card, deckView.filters))
       /\ \A i \in 1..Len(DeckCatalogue) :
            /\ Occurrences(GroupedCards, DeckCatalogue[i]) > 0 =>
                 \E g \in 1..Len(groups) : groups[g].type = GroupOfType(DeckCatalogue[i].type)
            /\ \A g \in 1..Len(groups) :
                 Occurrences(groups[g].cards, DeckCatalogue[i]) =
                   IF groups[g].type = GroupOfType(DeckCatalogue[i].type)
                     THEN Occurrences(GroupedCards, DeckCatalogue[i])
                     ELSE 0
       /\ \A g \in 1..Len(groups) :
            /\ groups[g].cards # <<>>
            /\ \A k \in 1..Len(groups[g].cards) :
                 \E i \in 1..Len(GroupedCards) : GroupedCards[i] = groups[g].cards[k]
            /\ \A k \in 1..(Len(groups[g].cards) - 1) :
                 InSortOrder(deckView.sortOption, groups[g].cards[k], groups[g].cards[k + 1])
       /\ \A g, h \in 1..Len(groups) :
            g < h => GroupBefore(groups[g].type, groups[h].type)

\* groupCardsByType has put a deck of three cards into a Character group,
\* whose two cards it has reordered, and a group of another type.
C30_Witness ==
  /\ deckView.call = "groupCardsByType"
  /\ Len(deckView.cards) = 3
  /\ Len(deckView.groups) = 2
  /\ deckView.groups[1].type = "Character"
  /\ deckView.groups[1].cards = <<deckView.cards[2], deckView.cards[1]>>
  /\ deckView.cards[1] # deckView.cards[2]
  /\ ~includes(TYPE_ORDER, deckView.groups[2].type)

\* C31: in every state reached by initialize, valid picks, undo, resetRound
\* and resetDraft, rounds has exactly currentRound elements, the i-th round
\* has roundNumber i, every round has 6 packs, and currentRound is in 1..6.
C31_RoundsMatchCurrentRound ==
  /\ draftState.currentRound \in 1..NumRounds
  /\ Len(draftState.rounds) = draftState.currentRound
  /\ \A i \in 1..Len(draftState.rounds) :
       /\ draftState.rounds[i].roundNumber = i
       /\ Len(draftState.rounds[i].packs) = NumPacks

\* C31 witness: resetRound was called in round 3, which left the 24 picks
\* of the first two rounds.
C31_Witness ==
  /\ lastCall = <<"resetRound">>
  /\ draftState.currentRound = 3
  /\ Len(draftState.rounds) = 3
  /\ Len(draftState.picks) = 2 * TurnsPerRound
  /\ ~draftState.isComplete

\* C32: the log and the picks stay aligned: they have the same length, the
\* i-th log entry holds the i-th pick, and it records round floor(i/12) + 1
\* and turn (i mod 12) + 1 (i counted from 0); so the first log entry of the
\* current round, where resetRound cuts both lists, stands right behind the
\* picks of the earlier rounds.
C32_LogAlignedWithPicks ==
  /\ Len(draftState.log) = Len(draftState.picks)
  /\ \A j \in 1..Len(draftState.log) :
       /\ draftState.log[j].picked = draftState.picks[j]
       /\ draftState.log[j].round = ((j - 1) \div TurnsPerRound) + 1
       /\ draftState.log[j].turn = ((j - 1) % TurnsPerRound) + 1
  /\ findIndexOfRound(draftState.log, draftState.currentRound) \in
       {-1, TurnsPerRound * (draftState.currentRound - 1)}
  /\ lastCall = <<"resetRound">> =>
       Len(draftState.picks) = TurnsPerRound * (draftState.currentRound - 1)

\* C32 witness: resetRound was called on a complete draft and cut the 12
\* picks of round 6 off the 72.
C32_Witness ==
  /\ lastCall = <<"resetRound">>
  /\ draftState.currentRound = NumRounds
  /\ draftState.isComplete
  /\ Len(draftState.picks) = TurnsPerRound * (NumRounds - 1)
  /\ Len(draftState.log) = TurnsPerRound * (NumRounds - 1)

\* C33: isComplete is consistent with the position in the draft, also after
\* resetRound or undo on a complete draft: it is true exactly when
\* currentRound = 6 and currentTurn = 13, and while it is false currentTurn
\* lies in 1..12.
C33_CompleteMatchesPosition ==
  /\ draftState.isComplete <=>
       (draftState.currentRound = NumRounds /\ draftState.currentTurn = TurnsPerRound + 1)
  /\ ~draftState.isComplete => draftState.currentTurn \in 1..TurnsPerRound

\* C34: the draft never gets stuck: over any non-empty pool, short packs
\* included, every reachable draft that is not complete has a non-empty
\* active pack, so a valid pick is available (the precondition of the
\* claim's progress to isComplete by repeated valid picks).
C34_ActivePackNeverEmpty ==
  (masterCards # <<>> /\ ~draftState.isComplete) =>
    /\ ActivePack(draftState).cards # <<>>
    /\ \E cardIndex \in 0..(PackSize - 1) : ValidCardIndex(draftState, cardIndex)

\* Every storage call the app started has finished.
AllCallsFinished == \A t \in 1..Len(storageCalls) : storageCalls[t].pc = "done"

\* C35: when every save started in the background has finished, the stored
\* database holds the DraftState produced last (here over runs in which
\* the database was initialized once only).
C35_StoreHoldsLatestDraft ==
  (AllCallsFinished /\ draftState # NoDraft /\ Len(instances) <= 1) =>
    /\ durable # Null
    /\ \E j \in 1..Len(durable[1]) :
         durable[1][j] = DraftRow(CurrentDraftName, draftState)

\* The rows that the saves through a given instance have written so far are
\* in the table: the row of the latest such save is there.
RowKept(table, t) ==
  \E j \in 1..Len(table) : table[j] = DraftRow(CurrentDraftName, storageCalls[t].state)

\* The save started last among the finished ones.
LastSave(t) ==
  /\ storageCalls[t].kind = "saveState"
  /\ \A u \in (t + 1)..Len(storageCalls) : storageCalls[u].kind # "saveState"

\* C36: initDatabase creates the in-memory database at most once, every
\* caller gets the instance that db refers to, and when all calls have
\* finished the row of the last save is in that instance.
C36_DatabaseCreatedOnce ==
  /\ Len(instances) <= 1
  /\ \A t \in 1..Len(storageCalls) : storageCalls[t].database \in {0, db}
  /\ AllCallsFinished =>
       \A t \in 1..Len(storageCalls) : LastSave(t) => RowKept(instances[db], t)

\* C37: once the user has started a draft, a step of the mount effect
\* (loadSavedDraft or loadCards finishing) leaves the draft state as it is.
C37_LateLoadKeepsUserDraft ==
  [][(mount.userStarted /\ lastCall'[1] \in {"initDatabase", "loadCards"})
       => draftState' = draftState]_vars

\* The pick lists that hold the same cards as the given one, in any order.
Reorderings(picks) ==
  {<<>> \o [j \in 1..Len(picks) |-> picks[order[j]]] :
     order \in {f \in [1..Len(picks) -> 1..Len(picks)] :
                  \A j, h \in 1..Len(picks) : f[j] = f[h] => j = h}}

\* C38: the tally and the copy text of a pick list are those of every
\* reordering of the list.
C38_TallyIgnoresPickOrder ==
  \A picks \in Reorderings(draftState.picks) :
    /\ getTally(picks) = getTally(draftState.picks)
    /\ generateCopyTextWithoutColor(picks) = generateCopyTextWithoutColor(draftState.picks)

\* C39: the deck text of a pick list, parsed, gives line for line the count
\* and the name of the entries of the tally, and no colour.
C39_CopyTextRoundTrip ==
  LET tally == getTally(draftState.picks)
      parsed == parseDeckText(generateCopyTextWithoutColor(draftState.picks))
  IN /\ Len(parsed) = Len(tally)
     /\ \A j \in 1..Len(tally) :
          parsed[j] = ParsedEntry(tally[j].count, tally[j].fullName, NoColor)

\* C39 witness: the text "2 7 Dwarfs\n1 Card C - Gold", of a name that
\* starts with a digit and a name with " - " in it, was parsed back.
C39_Witness ==
  /\ draftState.picks = <<5, 4, 5>>
  /\ generateCopyTextWithoutColor(draftState.picks) = "2 7 Dwarfs\n1 Card C - Gold"
  /\ parseDeckText("2 7 Dwarfs\n1 Card C - Gold")
       = <<ParsedEntry(2, "7 Dwarfs", NoColor), ParsedEntry(1, "Card C - Gold", NoColor)>>

====
